---- MODULE Spec2Model ----
(***************************************************************************)
(* The expression language (EL) of TrenchBroom: ELTokenizer and ELParser   *)
(* (src/unnamed/part_001), with the evaluator and the value model they     *)
(* feed.  A text is a sequence of one-character strings; a tokenizer       *)
(* position is a 1-based index into it (offset + 1).                       *)
(***************************************************************************)
EXTENDS Integers, Sequences, FiniteSets, TLC

VARIABLES
    input,   \* how the text was put together (the shape a claim speaks of)
    text,    \* the text handed to the tokenizer and the parser
    pos,     \* the cursor of a tokenizer reading text token by token
    toks,    \* the tokens that tokenizer has emitted
    phase,   \* start, lexing, lexed, parsed, evaluated
    m_mode,  \* the ELParser::Mode of the parse, once parsed
    result,  \* what ELParser::parse returned or threw
    variableStore, \* the variable store of the evaluation
    value,   \* what evaluate returned or threw
    m_smartTags,           \* TagManager: the registered smart tags
    m_currentTagTypeIndex, \* TagManager: the tag types handed out
    called,  \* the last TagManager call and what it returned or threw
    registered, \* the names registered since the last clearSmartTags
    m_modificationCount, \* MapDocument: the modifications since the last save
    m_path,      \* MapDocument: the path of the document
    undoable,    \* the commands executed and not undone
    aborted,     \* an assert of MapDocument has failed
    m_map,       \* MapDocument: the entities of the map and their properties
    notified,    \* the last entityPropertyDidChange notification
    updated,     \* what that notification had updated
    sphere,      \* a call of BrushBuilder::createUVSphere and where it stands
    sharedInstance,      \* the static PreferencesWindowController*
    preferencesListener, \* the static PreferencesListener*
    lock,        \* the @synchronized(self) lock of the controller class
    threads,     \* the threads calling the controller class
    heap         \* the controllers and listeners created so far

elVars == <<input, text, pos, toks, phase, m_mode, result, variableStore, value>>

tagVars == <<m_smartTags, m_currentTagTypeIndex, called, registered>>

docVars == <<m_modificationCount, m_path, undoable, aborted>>

entityVars == <<m_map, notified, updated>>

prefVars == <<sharedInstance, preferencesListener, lock, threads, heap>>

vars == <<input, text, pos, toks, phase, m_mode, result, variableStore, value,
          m_smartTags, m_currentTagTypeIndex, called, registered,
          m_modificationCount, m_path, undoable, aborted,
          m_map, notified, updated, sphere,
          sharedInstance, preferencesListener, lock, threads, heap>>

(***************************************************************************)
(* Characters                                                              *)
(***************************************************************************)
Letters ==
    {"a","b","c","d","e","f","g","h","i","j","k","l","m",
     "n","o","p","q","r","s","t","u","v","w","x","y","z",
     "A","B","C","D","E","F","G","H","I","J","K","L","M",
     "N","O","P","Q","R","S","T","U","V","W","X","Y","Z"}

Digits == {"0","1","2","3","4","5","6","7","8","9"}

isLetter(c) == c \in Letters

isDigit(c) == c \in Digits

Whitespace == {" ", "\t", "\n", "\r"}

\* Delimiters with the comparison sign '<' among them.
NumberDelimWithLess ==
    Whitespace \cup {"(", ")", "{", "}", "[", "]", ",", ":", "+", "-", "*", "/", "%", "<"}

\* ELTokenizer::NumberDelim: Whitespace() + "(){}[],:+-*/%"
NumberDelim ==
    Whitespace \cup {"(", ")", "{", "}", "[", "]", ",", ":", "+", "-", "*", "/", "%"}

\* ELTokenizer::IntegerDelim: NumberDelim() + "."
IntegerDelim == NumberDelim \cup {"."}

\* The escape character and the escapable characters the ELTokenizer
\* constructor hands to Tokenizer.
EscapeChar == "\\"

EscapableChars == {"\""}

(***************************************************************************)
(* Tokenizer primitives (class Tokenizer)                                  *)
(***************************************************************************)
eof(s, p) == p > Len(s)

\* The character at the cursor; the empty string stands for the 0 the
\* tokenizer reads at the end of the input.
curChar(s, p) == IF eof(s, p) THEN "" ELSE s[p]

lookAhead(s, p) == IF eof(s, p + 1) THEN "" ELSE s[p + 1]

RECURSIVE discardWhile(_, _, _)
discardWhile(s, p, set) ==
    IF ~eof(s, p) /\ s[p] \in set THEN discardWhile(s, p + 1, set) ELSE p

RECURSIVE discardUntil(_, _, _)
discardUntil(s, p, set) ==
    IF ~eof(s, p) /\ s[p] \notin set THEN discardUntil(s, p + 1, set) ELSE p

\* Tokenizer::discard(str): skips str when the input continues with exactly
\* these characters, and yields the position after it; 0 stands for nullptr.
discard(s, p, str) ==
    IF p + Len(str) - 1 <= Len(s) /\ SubSeq(s, p, p + Len(str) - 1) = str
    THEN p + Len(str)
    ELSE 0

readDigits(s, p) == discardWhile(s, p, Digits)

\* Tokenizer::readInteger(delims): digits up to a delimiter or the end of the
\* input; 0 stands for nullptr (the cursor is put back).  A sign cannot
\* reach it from emitToken, which handles '+' and '-' before.
readInteger(s, p, delims) ==
    IF ~isDigit(curChar(s, p)) THEN 0
    ELSE LET e == readDigits(s, p)
         IN  IF eof(s, e) \/ s[e] \in delims THEN e ELSE 0

\* Tokenizer::readDecimal(delims): digits, then an optional '.' and digits,
\* up to a delimiter or the end of the input; 0 stands for nullptr.
readDecimal(s, p, delims) ==
    IF curChar(s, p) # "." /\ ~isDigit(curChar(s, p)) THEN 0
    ELSE LET i == readDigits(s, p)
             e == IF curChar(s, i) = "." THEN readDigits(s, i + 1) ELSE i
             digits == (i - p) + (IF e > i THEN e - i - 1 ELSE 0)
         IN  IF digits > 0 /\ (eof(s, e) \/ s[e] \in delims) THEN e ELSE 0

\* Tokenizer::readQuotedString(delim): the position of the closing delimiter,
\* which an odd run of escape characters before an escapable character
\* hides; 0 when the input ends first (errorIfEof throws).
RECURSIVE readQuotedString(_, _, _, _)
readQuotedString(s, p, delim, escaped) ==
    IF eof(s, p) THEN 0
    ELSE IF s[p] = delim /\ ~(escaped /\ s[p] \in EscapableChars) THEN p
    ELSE readQuotedString(s, p + 1, delim,
                          IF s[p] = EscapeChar THEN ~escaped ELSE FALSE)

\* Tokenizer::line and Tokenizer::column with the cursor at p, both 1-based:
\* a line feed ends a line.
line(s, p) == 1 + Cardinality({i \in 1 .. p - 1 : i <= Len(s) /\ s[i] = "\n"})

column(s, p) ==
    LET feeds == {i \in 1 .. p - 1 : i <= Len(s) /\ s[i] = "\n"}
        last == IF feeds = {} THEN 0 ELSE CHOOSE i \in feeds : \A j \in feeds : j <= i
    IN  p - last

(***************************************************************************)
(* Tokens.  b and e delimit the matched text, s[b] .. s[e-1], and         *)
(* offset(c) is b - 1; loc is the position whose line and column the token *)
(* carries; next is the cursor after the token.                            *)
(***************************************************************************)
Token(type, b, e, next, loc) ==
    [type |-> type, b |-> b, e |-> e, next |-> next, loc |-> loc]

\* A ParserException thrown by the tokenizer for the character at position at.
LexError(at) == Token("Error", at, at, at, at)

data(s, tok) == SubSeq(s, tok.b, tok.e - 1)

\* ELTokenizer::emitToken, default branch: '.', '=', numbers, keywords, names.
\* case '=': the test reads curChar(), which is '=' in this branch, so the
\* branch is always taken; advance(2) throws at the end of the input.
emitEqual(s, p) ==
    IF curChar(s, p) = "="
    THEN IF eof(s, p + 1) THEN LexError(p + 1) ELSE Token("Equal", p, p + 2, p + 2, p)
    ELSE LexError(p)

RECURSIVE readName(_, _)
readName(s, p) ==
    IF ~eof(s, p + 1) /\ (isLetter(s[p + 1]) \/ isDigit(s[p + 1]) \/ s[p + 1] = "_")
    THEN readName(s, p + 1)
    ELSE p + 1

\* discard("true"), discard("false"), discard("null"), then the name scan.
emitKeywordOrName(s, p) ==
    IF discard(s, p, <<"t","r","u","e">>) # 0
    THEN Token("Boolean", p, p + 4, p + 4, p)
    ELSE IF discard(s, p, <<"f","a","l","s","e">>) # 0
    THEN Token("Boolean", p, p + 5, p + 5, p)
    ELSE IF discard(s, p, <<"n","u","l","l">>) # 0
    THEN Token("Null", p, p + 4, p + 4, p)
    ELSE IF isLetter(s[p]) \/ s[p] = "_"
    THEN Token("Name", p, readName(s, p), readName(s, p), p)
    ELSE LexError(p)

emitDefault(s, p) ==
    IF s[p] = "." /\ lookAhead(s, p) = "."
    THEN Token("Range", p, p + 2, p + 2, p)
    ELSE IF s[p] = "="
    THEN emitEqual(s, p)
    ELSE IF readDecimal(s, p, NumberDelim) # 0
    THEN LET e == readDecimal(s, p, NumberDelim)
         IN  IF ~eof(s, e) /\ s[e] = "." /\ lookAhead(s, e) # "."
             THEN LexError(p)
             ELSE Token("Number", p, e, e, p)
    ELSE IF readInteger(s, p, IntegerDelim) # 0
    THEN Token("Number", p, readInteger(s, p, IntegerDelim), readInteger(s, p, IntegerDelim), p)
    ELSE emitKeywordOrName(s, p)

\* Two closing braces not joined: the first alone is a CBrace.
TwoBracesApart(type, p) ==
    IF type = "DoubleCBrace" THEN Token("CBrace", p, p + 1, p + 1, p)
    ELSE Token(type, p, p + 2, p + 2, p)

\* A two-character token that leaves the cursor one character too far.
TwoOverrunning(type, p) == Token(type, p, p + 2, p + 3, p)

\* One character decides, or one character of lookahead.
One(type, p) == Token(type, p, p + 1, p + 1, p)

Two(type, p) == Token(type, p, p + 2, p + 2, p)

\* ELTokenizer::emitToken: the next token from cursor p.
RECURSIVE emitToken(_, _)
emitToken(s, p) ==
    IF eof(s, p) THEN Token("Eof", Len(s) + 1, Len(s) + 1, Len(s) + 1, Len(s) + 1)
    ELSE LET c == s[p]
             n == lookAhead(s, p)
         IN CASE c = "[" -> One("OBracket", p)
              [] c = "]" -> One("CBracket", p)
              [] c = "{" -> IF n = "{" THEN Two("DoubleOBrace", p) ELSE One("OBrace", p)
              [] c = "}" -> IF n = "}" THEN Two("DoubleCBrace", p) ELSE One("CBrace", p)
              [] c = "(" -> One("OParen", p)
              [] c = ")" -> One("CParen", p)
              [] c = "+" -> One("Addition", p)
              [] c = "-" -> IF n = ">" THEN Two("Case", p) ELSE One("Subtraction", p)
              [] c = "*" -> One("Multiplication", p)
              [] c = "/" -> IF n = "/"
                            THEN emitToken(s, discardUntil(s, p + 1, {"\n", "\r"}))
                            ELSE One("Division", p)
              [] c = "%" -> One("Modulus", p)
              [] c = "~" -> One("BitwiseNegation", p)
              [] c = "&" -> IF n = "&" THEN Two("LogicalAnd", p) ELSE One("BitwiseAnd", p)
              [] c = "|" -> IF n = "|" THEN Two("LogicalOr", p) ELSE One("BitwiseOr", p)
              [] c = "^" -> One("BitwiseXOr", p)
              [] c = "!" -> IF n = "=" THEN Two("NotEqual", p) ELSE One("LogicalNegation", p)
              [] c = "<" -> IF n = "=" THEN Two("LessOrEqual", p)
                            ELSE IF n = "<" THEN Two("BitwiseShiftLeft", p)
                            ELSE One("Less", p)
              [] c = ">" -> IF n = "=" THEN Two("GreaterOrEqual", p)
                            ELSE IF n = ">" THEN Two("BitwiseShiftRight", p)
                            ELSE One("Greater", p)
              [] c = ":" -> One("Colon", p)
              [] c = "," -> One("Comma", p)
              [] c \in {"'", "\""} ->
                    LET e == readQuotedString(s, p + 1, c, FALSE)
                    IN  IF e = 0 THEN LexError(Len(s) + 1)
                        ELSE Token("String", p + 1, e, e + 1, p)
              [] c \in Whitespace -> emitToken(s, discardWhile(s, p, Whitespace))
              [] OTHER -> emitDefault(s, p)

\* A peek that yields the token after the one at the cursor.
peekTokenSkipping(s, p) == emitToken(s, emitToken(s, p).next)

\* Tokenizer::peekToken and Tokenizer::nextToken both yield emitToken at the
\* cursor; nextToken also moves the cursor to the token's next.
peekToken(s, p) == emitToken(s, p)

(***************************************************************************)
(* Token classes (namespace ELToken)                                       *)
(***************************************************************************)
Literal == {"String", "Number", "Boolean", "Null"}

UnaryOperator == {"Addition", "Subtraction", "LogicalNegation", "BitwiseNegation"}

SimpleTerm == {"Name", "OParen", "OBracket", "OBrace"} \cup Literal \cup UnaryOperator

CompoundTerm ==
    {"Addition", "Subtraction", "Multiplication", "Division", "Modulus",
     "LogicalAnd", "LogicalOr", "Less", "LessOrEqual", "Equal", "NotEqual",
     "GreaterOrEqual", "Greater", "Case", "BitwiseAnd", "BitwiseXOr",
     "BitwiseOr", "BitwiseShiftLeft", "BitwiseShiftRight"}

hasType(tok, mask) == tok.type \in mask

(***************************************************************************)
(* Expression nodes, as tuples led by their kind.  The source location a   *)
(* node carries is left out: it plays no part in node equality.            *)
(***************************************************************************)
LiteralExpression(v) == <<"Literal", v>>

VariableExpression(name) == <<"Variable", name>>

UnaryExpression(op, operand) == <<"Unary", op, operand>>

BinaryExpression(op, lhs, rhs) == <<"Binary", op, lhs, rhs>>

ArrayExpression(elements) == <<"Array", elements>>

MapExpression(elements) == <<"Map", elements>>

SubscriptExpression(lhs, rhs) == <<"Subscript", lhs, rhs>>

SwitchExpression(cases) == <<"Switch", cases>>

(***************************************************************************)
(* Values, as tuples led by their kind.  A Number is the fraction n / d    *)
(* in lowest terms, d > 0.                                                 *)
(***************************************************************************)
NullValue == <<"Null">>

BooleanValue(b) == <<"Boolean", b>>

StringValue(str) == <<"String", str>>

ArrayValue(elements) == <<"Array", elements>>

MapValue(elements) == <<"Map", elements>>

Abs(n) == IF n < 0 THEN -n ELSE n

RECURSIVE Gcd(_, _)
Gcd(a, b) == IF b = 0 THEN a ELSE Gcd(b, a % b)

NumberValue(n, d) ==
    LET g == Gcd(Abs(n), d)
    IN  <<"Number", n \div g, d \div g>>

DigitValue(c) ==
    CASE c = "0" -> 0 [] c = "1" -> 1 [] c = "2" -> 2 [] c = "3" -> 3 [] c = "4" -> 4
      [] c = "5" -> 5 [] c = "6" -> 6 [] c = "7" -> 7 [] c = "8" -> 8 [] c = "9" -> 9

RECURSIVE Pow10(_)
Pow10(k) == IF k = 0 THEN 1 ELSE 10 * Pow10(k - 1)

\* Token::toFloat on a token readDecimal or readInteger accepted: the digits
\* before and after the '.', read in base ten.
RECURSIVE toFloatFrom(_, _, _)
toFloatFrom(str, n, scale) ==
    IF str = <<>> THEN NumberValue(n, Pow10(IF scale < 0 THEN 0 ELSE scale))
    ELSE IF Head(str) = "." THEN toFloatFrom(Tail(str), n, 0)
    ELSE toFloatFrom(Tail(str), 10 * n + DigitValue(Head(str)),
                     IF scale < 0 THEN scale ELSE scale + 1)

toFloat(str) == toFloatFrom(str, 0, -1)

\* kdl::str_unescape(str, "\\\""): a backslash before a backslash or a double
\* quote is dropped; before any other character it stays.
RECURSIVE str_unescape(_, _)
str_unescape(str, escaped) ==
    IF str = <<>> THEN (IF escaped THEN <<EscapeChar>> ELSE <<>>)
    ELSE LET c == Head(str)
         IN  IF c = EscapeChar
             THEN (IF escaped THEN <<c>> ELSE <<>>) \o str_unescape(Tail(str), ~escaped)
             ELSE (IF escaped /\ c # "\"" THEN <<EscapeChar, c>> ELSE <<c>>)
                  \o str_unescape(Tail(str), FALSE)

(***************************************************************************)
(* Parser results: a node and the cursor after it, or the exception thrown *)
(* (by the tokenizer or by expect) and the position of the token or        *)
(* character it names.                                                     *)
(***************************************************************************)
Ok(node, p) == [ok |-> TRUE, node |-> node, pos |-> p, err |-> "", at |-> 0]

Fail(err, at) == [ok |-> FALSE, node |-> <<>>, pos |-> 0, err |-> err, at |-> at]

\* The exception that ends the parse when tok is not of an expected kind:
\* the tokenizer's own when it could not produce tok, else expect's.
Unexpected(tok) ==
    IF tok.type = "Error" THEN Fail("LexError", tok.loc) ELSE Fail("ParseError", tok.loc)

\* The operator tables of parseUnaryOperator and parseCompoundTerm.
UnaryTokenMap(type) ==
    CASE type = "Addition" -> "Plus"
      [] type = "Subtraction" -> "Minus"
      [] type = "LogicalNegation" -> "LogicalNegation"
      [] type = "BitwiseNegation" -> "BitwiseNegation"
      [] OTHER -> "Unhandled"

\* A table with the entries of && and || exchanged.
BinaryTokenMapSwapped(type) ==
    CASE type = "LogicalAnd" -> "LogicalOr"
      [] type = "LogicalOr" -> "LogicalAnd"
      [] type = "Range" -> "BoundedRange"
      [] type \in CompoundTerm -> type
      [] OTHER -> "Unhandled"

BinaryTokenMap(type) ==
    CASE type = "Range" -> "BoundedRange"
      [] type \in CompoundTerm -> type
      [] OTHER -> "Unhandled"

\* std::map::emplace: a key that is already present keeps its element.
emplace(elements, key, node) ==
    IF key \in DOMAIN elements THEN elements ELSE elements @@ (key :> node)

RECURSIVE call(_, _, _, _)

parseExpression(s, p) ==
    LET token == call("peekToken", s, p, <<>>)
    IN  IF token.type = "Error" THEN Unexpected(token)
        ELSE IF hasType(token, {"OParen"}) THEN call("parseGroupedTerm", s, p, <<>>)
        ELSE call("parseTerm", s, p, <<>>)

\* The tail of parseGroupedTerm and of parseTerm: a binary operator after
\* lhs starts a compound term.
compoundOrLhs(s, p, lhs) ==
    LET token == call("peekToken", s, p, <<>>)
    IN  IF token.type = "Error" THEN Unexpected(token)
        ELSE IF hasType(token, CompoundTerm) THEN call("parseCompoundTerm", s, p, lhs)
        ELSE Ok(lhs, p)

parseGroupedTerm(s, p) ==
    LET token == call("peekToken", s, p, <<>>)
    IN  IF ~hasType(token, {"OParen"}) THEN Unexpected(token)
        ELSE LET expression == call("parseTerm", s, token.next, <<>>)
             IN  IF ~expression.ok THEN expression
                 ELSE LET close == call("peekToken", s, expression.pos, <<>>)
                      IN  IF ~hasType(close, {"CParen"}) THEN Unexpected(close)
                          ELSE call("compoundOrLhs", s, close.next, UnaryExpression("Group", expression.node))

parseTerm(s, p) ==
    LET token == call("peekToken", s, p, <<>>)
    IN  IF ~hasType(token, SimpleTerm \cup {"DoubleOBrace"}) THEN Unexpected(token)
        ELSE LET lhs == call("parseSimpleTermOrSwitch", s, p, <<>>)
             IN  IF ~lhs.ok THEN lhs ELSE call("compoundOrLhs", s, lhs.pos, lhs.node)

parseSimpleTermOrSwitch(s, p) ==
    LET token == call("peekToken", s, p, <<>>)
    IN  IF ~hasType(token, SimpleTerm \cup {"DoubleOBrace"}) THEN Unexpected(token)
        ELSE IF hasType(token, SimpleTerm) THEN call("parseSimpleTermOrSubscript", s, p, <<>>)
        ELSE call("parseSwitch", s, p, <<>>)

parseSimpleTermOrSubscript(s, p) ==
    LET term == call("parseSimpleTerm", s, p, <<>>)
    IN  IF ~term.ok THEN term ELSE call("parseSubscriptChain", s, term.pos, term.node)

\* The while loop of parseSimpleTermOrSubscript.
parseSubscriptChain(s, p, term) ==
    LET token == call("peekToken", s, p, <<>>)
    IN  IF token.type = "Error" THEN Unexpected(token)
        ELSE IF hasType(token, {"OBracket"})
        THEN LET sub == call("parseSubscript", s, p, term)
             IN  IF ~sub.ok THEN sub ELSE call("parseSubscriptChain", s, sub.pos, sub.node)
        ELSE Ok(term, p)

parseVariable(s, p) ==
    LET token == call("peekToken", s, p, <<>>)
    IN  IF ~hasType(token, {"Name"}) THEN Unexpected(token)
        ELSE Ok(VariableExpression(data(s, token)), token.next)

parseSimpleTerm(s, p) ==
    LET token == call("peekToken", s, p, <<>>)
    IN  IF ~hasType(token, SimpleTerm) THEN Unexpected(token)
        ELSE IF hasType(token, UnaryOperator) THEN call("parseUnaryOperator", s, p, <<>>)
        ELSE IF hasType(token, {"OParen"}) THEN call("parseGroupedTerm", s, p, <<>>)
        ELSE IF hasType(token, {"Name"}) THEN call("parseVariable", s, p, <<>>)
        ELSE call("parseLiteral", s, p, <<>>)

\* An index that is an array whatever the number of elements.
subscriptIndexAlwaysArray(elements) == ArrayExpression(elements)

\* A subscript's index: the single element, or an array of them.
subscriptIndex(elements) ==
    IF Len(elements) = 1 THEN elements[1] ELSE ArrayExpression(elements)

parseSubscript(s, p, lhs) ==
    LET token == call("peekToken", s, p, <<>>)
    IN  IF ~hasType(token, {"OBracket"}) THEN Unexpected(token)
        ELSE LET first == call("peekToken", s, token.next, <<>>)
             IN  IF first.type = "Error" THEN Unexpected(first)
                 ELSE IF hasType(first, {"CBracket"})
                 THEN Ok(SubscriptExpression(lhs, subscriptIndex(<<>>)), first.next)
                 ELSE LET elements == call("parseSubscriptElements", s, token.next, <<>>)
                      IN  IF ~elements.ok THEN elements
                          ELSE Ok(SubscriptExpression(lhs, subscriptIndex(elements.node)),
                                  elements.pos)

\* The do-while loop of parseSubscript; the node of its result is the
\* vector of elements.
parseSubscriptElements(s, p, elements) ==
    LET element == call("parseExpressionOrAnyRange", s, p, <<>>)
    IN  IF ~element.ok THEN element
        ELSE LET token == call("peekToken", s, element.pos, <<>>)
             IN  IF ~hasType(token, {"Comma", "CBracket"}) THEN Unexpected(token)
                 ELSE IF hasType(token, {"Comma"})
                 THEN call("parseSubscriptElements", s, token.next, Append(elements, element.node))
                 ELSE Ok(Append(elements, element.node), token.next)

parseLiteral(s, p) ==
    LET token == call("peekToken", s, p, <<>>)
    IN  IF ~hasType(token, Literal \cup {"OBracket", "OBrace"}) THEN Unexpected(token)
        ELSE IF hasType(token, {"String"})
        THEN Ok(LiteralExpression(StringValue(str_unescape(data(s, token), FALSE))),
                token.next)
        ELSE IF hasType(token, {"Number"})
        THEN Ok(LiteralExpression(toFloat(data(s, token))), token.next)
        ELSE IF hasType(token, {"Boolean"})
        THEN Ok(LiteralExpression(BooleanValue(data(s, token) = <<"t","r","u","e">>)),
                token.next)
        ELSE IF hasType(token, {"Null"})
        THEN Ok(LiteralExpression(NullValue), token.next)
        ELSE IF hasType(token, {"OBracket"}) THEN call("parseArray", s, p, <<>>)
        ELSE call("parseMap", s, p, <<>>)

parseArray(s, p) ==
    LET token == call("peekToken", s, p, <<>>)
    IN  IF ~hasType(token, {"OBracket"}) THEN Unexpected(token)
        ELSE LET first == call("peekToken", s, token.next, <<>>)
             IN  IF first.type = "Error" THEN Unexpected(first)
                 ELSE IF hasType(first, {"CBracket"})
                 THEN Ok(ArrayExpression(<<>>), first.next)
                 ELSE LET elements == call("parseArrayElements", s, token.next, <<>>)
                      IN  IF ~elements.ok THEN elements
                          ELSE Ok(ArrayExpression(elements.node), elements.pos)

\* The do-while loop of parseArray.
parseArrayElements(s, p, elements) ==
    LET element == call("parseExpressionOrBoundedRange", s, p, <<>>)
    IN  IF ~element.ok THEN element
        ELSE LET token == call("peekToken", s, element.pos, <<>>)
             IN  IF ~hasType(token, {"Comma", "CBracket"}) THEN Unexpected(token)
                 ELSE IF hasType(token, {"Comma"})
                 THEN call("parseArrayElements", s, token.next, Append(elements, element.node))
                 ELSE Ok(Append(elements, element.node), token.next)

parseExpressionOrBoundedRange(s, p) ==
    LET expression == call("parseExpression", s, p, <<>>)
    IN  IF ~expression.ok THEN expression
        ELSE LET token == call("peekToken", s, expression.pos, <<>>)
             IN  IF token.type = "Error" THEN Unexpected(token)
                 ELSE IF hasType(token, {"Range"})
                 THEN LET upper == call("parseExpression", s, token.next, <<>>)
                      IN  IF ~upper.ok THEN upper
                          ELSE Ok(BinaryExpression("BoundedRange", expression.node,
                                                   upper.node), upper.pos)
                 ELSE expression

\* The open ends taken for one another.
parseExpressionOrAnyRangeEndsSwapped(s, p) ==
    LET token == call("peekToken", s, p, <<>>)
    IN  IF token.type = "Error" THEN Unexpected(token)
        ELSE IF hasType(token, {"Range"})
        THEN LET upper == call("parseExpression", s, token.next, <<>>)
             IN  IF ~upper.ok THEN upper
                 ELSE Ok(UnaryExpression("LeftBoundedRange", upper.node), upper.pos)
        ELSE LET expression == call("parseExpression", s, p, <<>>)
             IN  IF ~expression.ok THEN expression
                 ELSE LET range == call("peekToken", s, expression.pos, <<>>)
                      IN  IF range.type = "Error" THEN Unexpected(range)
                          ELSE IF ~hasType(range, {"Range"}) THEN expression
                          ELSE LET after == call("peekToken", s, range.next, <<>>)
                               IN  IF after.type = "Error" THEN Unexpected(after)
                                   ELSE IF hasType(after, SimpleTerm)
                                   THEN LET upper == call("parseExpression", s, range.next, <<>>)
                                        IN  IF ~upper.ok THEN upper
                                            ELSE Ok(BinaryExpression("BoundedRange",
                                                        expression.node, upper.node),
                                                    upper.pos)
                                   ELSE Ok(UnaryExpression("RightBoundedRange",
                                                           expression.node), range.next)

parseExpressionOrAnyRange(s, p) ==
    LET token == call("peekToken", s, p, <<>>)
    IN  IF token.type = "Error" THEN Unexpected(token)
        ELSE IF hasType(token, {"Range"})
        THEN LET upper == call("parseExpression", s, token.next, <<>>)
             IN  IF ~upper.ok THEN upper
                 ELSE Ok(UnaryExpression("RightBoundedRange", upper.node), upper.pos)
        ELSE LET expression == call("parseExpression", s, p, <<>>)
             IN  IF ~expression.ok THEN expression
                 ELSE LET range == call("peekToken", s, expression.pos, <<>>)
                      IN  IF range.type = "Error" THEN Unexpected(range)
                          ELSE IF ~hasType(range, {"Range"}) THEN expression
                          ELSE LET after == call("peekToken", s, range.next, <<>>)
                               IN  IF after.type = "Error" THEN Unexpected(after)
                                   ELSE IF hasType(after, SimpleTerm)
                                   THEN LET upper == call("parseExpression", s, range.next, <<>>)
                                        IN  IF ~upper.ok THEN upper
                                            ELSE Ok(BinaryExpression("BoundedRange",
                                                        expression.node, upper.node),
                                                    upper.pos)
                                   ELSE Ok(UnaryExpression("LeftBoundedRange",
                                                           expression.node), range.next)

parseMap(s, p) ==
    LET token == call("peekToken", s, p, <<>>)
    IN  IF ~hasType(token, {"OBrace"}) THEN Unexpected(token)
        ELSE LET first == call("peekToken", s, token.next, <<>>)
             IN  IF first.type = "Error" THEN Unexpected(first)
                 ELSE IF hasType(first, {"CBrace"})
                 THEN Ok(MapExpression(<<>>), first.next)
                 ELSE LET elements == call("parseMapElements", s, token.next, <<>>)
                      IN  IF ~elements.ok THEN elements
                          ELSE Ok(MapExpression(elements.node), elements.pos)

\* The do-while loop of parseMap; the key is the token's text as it stands.
parseMapElements(s, p, elements) ==
    LET token == call("peekToken", s, p, <<>>)
    IN  IF ~hasType(token, {"String", "Name"}) THEN Unexpected(token)
        ELSE LET key == data(s, token)
                 colon == call("peekToken", s, token.next, <<>>)
             IN  IF ~hasType(colon, {"Colon"}) THEN Unexpected(colon)
                 ELSE LET expression == call("parseExpression", s, colon.next, <<>>)
                      IN  IF ~expression.ok THEN expression
                          ELSE LET sep == call("peekToken", s, expression.pos, <<>>)
                                   added == emplace(elements, key, expression.node)
                               IN  IF ~hasType(sep, {"Comma", "CBrace"}) THEN Unexpected(sep)
                                   ELSE IF hasType(sep, {"Comma"})
                                   THEN call("parseMapElements", s, sep.next, added)
                                   ELSE Ok(added, sep.next)

parseUnaryOperator(s, p) ==
    LET token == call("peekToken", s, p, <<>>)
    IN  IF ~hasType(token, UnaryOperator) THEN Unexpected(token)
        ELSE IF UnaryTokenMap(token.type) = "Unhandled" THEN Fail("ParseError", token.loc)
        ELSE LET operand == call("parseSimpleTermOrSwitch", s, token.next, <<>>)
             IN  IF ~operand.ok THEN operand
                 ELSE Ok(UnaryExpression(UnaryTokenMap(token.type), operand.node),
                         operand.pos)

parseSwitch(s, p) ==
    LET token == call("peekToken", s, p, <<>>)
    IN  IF ~hasType(token, {"DoubleOBrace"}) THEN Unexpected(token)
        ELSE LET first == call("peekToken", s, token.next, <<>>)
             IN  IF ~hasType(first, SimpleTerm \cup {"DoubleCBrace"}) THEN Unexpected(first)
                 ELSE IF hasType(first, SimpleTerm)
                 THEN LET cases == call("parseSwitchElements", s, token.next, <<>>)
                      IN  IF ~cases.ok THEN cases
                          ELSE Ok(SwitchExpression(cases.node), cases.pos)
                 ELSE Ok(SwitchExpression(<<>>), first.next)

\* A loop that puts each element before the ones already parsed.
parseSwitchElementsReversed(s, p, cases) ==
    LET expression == call("parseExpression", s, p, <<>>)
    IN  IF ~expression.ok THEN expression
        ELSE LET token == call("peekToken", s, expression.pos, <<>>)
             IN  IF ~hasType(token, {"Comma", "DoubleCBrace"}) THEN Unexpected(token)
                 ELSE IF hasType(token, {"Comma"})
                 THEN call("parseSwitchElements", s, token.next, <<expression.node>> \o cases)
                 ELSE Ok(<<expression.node>> \o cases, token.next)

\* The do-while loop of parseSwitch.
parseSwitchElements(s, p, cases) ==
    LET expression == call("parseExpression", s, p, <<>>)
    IN  IF ~expression.ok THEN expression
        ELSE LET token == call("peekToken", s, expression.pos, <<>>)
             IN  IF ~hasType(token, {"Comma", "DoubleCBrace"}) THEN Unexpected(token)
                 ELSE IF hasType(token, {"Comma"})
                 THEN call("parseSwitchElements", s, token.next, Append(cases, expression.node))
                 ELSE Ok(Append(cases, expression.node), token.next)

\* A compound term whose right operand is a whole term: the chain nests to
\* the right.
parseCompoundTermRightNested(s, p, lhs) ==
    LET token == call("peekToken", s, p, <<>>)
    IN  IF token.type = "Error" THEN Unexpected(token)
        ELSE IF ~hasType(token, CompoundTerm) THEN Ok(lhs, p)
        ELSE LET rhs == call("parseTerm", s, token.next, <<>>)
             IN  IF ~rhs.ok THEN rhs
                 ELSE Ok(BinaryExpression(BinaryTokenMap(token.type), lhs, rhs.node),
                         rhs.pos)

parseCompoundTerm(s, p, lhs) ==
    LET token == call("peekToken", s, p, <<>>)
    IN  IF token.type = "Error" THEN Unexpected(token)
        ELSE IF ~hasType(token, CompoundTerm) THEN Ok(lhs, p)
        ELSE IF BinaryTokenMap(token.type) = "Unhandled" THEN Fail("ParseError", token.loc)
        ELSE LET rhs == call("parseSimpleTermOrSwitch", s, token.next, <<>>)
             IN  IF ~rhs.ok THEN rhs
                 ELSE call("parseCompoundTerm", s, rhs.pos, BinaryExpression(BinaryTokenMap(token.type), lhs, rhs.node))

\* The functions of the parser call one another, and the tokenizer, through
\* call, which dispatches on the name of the function called; arg is the
\* argument a function takes besides the tokenizer, <<>> when it takes none.
call(rule, s, p, arg) ==
    CASE rule = "peekToken" -> peekToken(s, p)
      [] rule = "parseExpression" -> parseExpression(s, p)
      [] rule = "compoundOrLhs" -> compoundOrLhs(s, p, arg)
      [] rule = "parseGroupedTerm" -> parseGroupedTerm(s, p)
      [] rule = "parseTerm" -> parseTerm(s, p)
      [] rule = "parseSimpleTermOrSwitch" -> parseSimpleTermOrSwitch(s, p)
      [] rule = "parseSimpleTermOrSubscript" -> parseSimpleTermOrSubscript(s, p)
      [] rule = "parseSubscriptChain" -> parseSubscriptChain(s, p, arg)
      [] rule = "parseVariable" -> parseVariable(s, p)
      [] rule = "parseSimpleTerm" -> parseSimpleTerm(s, p)
      [] rule = "parseSubscript" -> parseSubscript(s, p, arg)
      [] rule = "parseSubscriptElements" -> parseSubscriptElements(s, p, arg)
      [] rule = "parseLiteral" -> parseLiteral(s, p)
      [] rule = "parseArray" -> parseArray(s, p)
      [] rule = "parseArrayElements" -> parseArrayElements(s, p, arg)
      [] rule = "parseExpressionOrBoundedRange" -> parseExpressionOrBoundedRange(s, p)
      [] rule = "parseExpressionOrAnyRange" -> parseExpressionOrAnyRange(s, p)
      [] rule = "parseMap" -> parseMap(s, p)
      [] rule = "parseMapElements" -> parseMapElements(s, p, arg)
      [] rule = "parseUnaryOperator" -> parseUnaryOperator(s, p)
      [] rule = "parseSwitch" -> parseSwitch(s, p)
      [] rule = "parseSwitchElements" -> parseSwitchElements(s, p, arg)
      [] rule = "parseCompoundTerm" -> parseCompoundTerm(s, p, arg)

\* A parse that never looks for the end of the input.
parseWithoutEofCheck(mode, s) == parseExpression(s, 1)

\* A parse that in Strict mode reports every error at the end of the input.
parseReportingAtEnd(mode, s) ==
    LET parsed == parseExpression(s, 1)
    IN  IF ~parsed.ok
        THEN IF mode = "Strict" THEN Fail(parsed.err, Len(s) + 1) ELSE parsed
        ELSE IF mode = "Strict"
        THEN LET token == peekToken(s, parsed.pos)
             IN  IF ~hasType(token, {"Eof"}) THEN Unexpected(token) ELSE parsed
        ELSE parsed

\* ELParser::parse under ELParser::Mode mode.
parse(mode, s) ==
    LET parsed == parseExpression(s, 1)
    IN  IF ~parsed.ok THEN parsed
        ELSE IF mode = "Strict"
        THEN LET token == peekToken(s, parsed.pos)
             IN  IF ~hasType(token, {"Eof"}) THEN Unexpected(token) ELSE parsed
        ELSE parsed

parseStrict(str) == parse("Strict", str)

parseLenient(str) == parse("Lenient", str)

(***************************************************************************)
(* Evaluator: evaluate(node, variableStore) -> Value | EvalError.  A store *)
(* is a function from names to Values.                                     *)
(***************************************************************************)
EvalError(reason) == <<"EvalError", reason>>

IsError(v) == v[1] = "EvalError"

kind(v) == v[1]

IsIntegral(v) == kind(v) = "Number" /\ v[3] = 1

Integer(n) == NumberValue(n, 1)

\* The characters in their ASCII order, for the lexicographic comparison.
AsciiOrder ==
    <<" ", "!", "\"", "#", "$", "%", "&", "'", "(", ")", "*", "+", ",", "-", ".", "/",
      "0", "1", "2", "3", "4", "5", "6", "7", "8", "9", ":", ";", "<", "=", ">", "?", "@",
      "A", "B", "C", "D", "E", "F", "G", "H", "I", "J", "K", "L", "M",
      "N", "O", "P", "Q", "R", "S", "T", "U", "V", "W", "X", "Y", "Z",
      "[", "\\", "]", "^", "_",
      "a", "b", "c", "d", "e", "f", "g", "h", "i", "j", "k", "l", "m",
      "n", "o", "p", "q", "r", "s", "t", "u", "v", "w", "x", "y", "z",
      "{", "|", "}", "~">>

CharCode(c) ==
    IF \E i \in DOMAIN AsciiOrder : AsciiOrder[i] = c
    THEN CHOOSE i \in DOMAIN AsciiOrder : AsciiOrder[i] = c
    ELSE 0

RECURSIVE StringLess(_, _)
StringLess(a, b) ==
    IF b = <<>> THEN FALSE
    ELSE IF a = <<>> THEN TRUE
    ELSE IF CharCode(Head(a)) # CharCode(Head(b)) THEN CharCode(Head(a)) < CharCode(Head(b))
    ELSE StringLess(Tail(a), Tail(b))

\* Truthiness: a Boolean is itself, a Number is true iff nonzero, a String
\* iff nonempty, Null is false, an Array or a Map has none.
truthy(v) ==
    CASE kind(v) = "Boolean" -> v
      [] kind(v) = "Number" -> BooleanValue(v[2] # 0)
      [] kind(v) = "String" -> BooleanValue(v[2] # <<>>)
      [] kind(v) = "Null" -> BooleanValue(FALSE)
      [] OTHER -> EvalError("truthiness")

\* Coercion of an arithmetic operand to a Number.
RECURSIVE AllDigits(_)
AllDigits(str) == str = <<>> \/ (isDigit(Head(str)) /\ AllDigits(Tail(str)))

toNumber(v) ==
    CASE kind(v) = "Number" -> v
      [] kind(v) = "Boolean" -> Integer(IF v[2] THEN 1 ELSE 0)
      [] kind(v) = "String" /\ v[2] # <<>> /\ AllDigits(v[2]) -> toFloat(v[2])
      [] OTHER -> EvalError("type mismatch")

RECURSIVE Pow2(_)
Pow2(k) == IF k = 0 THEN 1 ELSE 2 * Pow2(k - 1)

\* Bitwise operators on integers in two's-complement form of any width.
RECURSIVE Bitwise(_, _, _)
Bitwise(op, a, b) ==
    IF a \in {0, -1} /\ b \in {0, -1}
    THEN LET x == a = -1
             y == b = -1
             bit == CASE op = "BitwiseAnd" -> x /\ y
                      [] op = "BitwiseOr" -> x \/ y
                      [] op = "BitwiseXOr" -> x # y
         IN  IF bit THEN -1 ELSE 0
    ELSE LET low == Bitwise(op, -(a % 2), -(b % 2))
         IN  2 * Bitwise(op, a \div 2, b \div 2) - low

evaluateArithmetic(op, l, r) ==
    IF op = "Addition" /\ kind(l) = "String" /\ kind(r) = "String"
    THEN StringValue(l[2] \o r[2])
    ELSE LET a == toNumber(l)
             b == toNumber(r)
         IN  IF IsError(a) THEN a
             ELSE IF IsError(b) THEN b
             ELSE CASE op = "Addition" -> NumberValue(a[2] * b[3] + b[2] * a[3], a[3] * b[3])
                    [] op = "Subtraction" -> NumberValue(a[2] * b[3] - b[2] * a[3], a[3] * b[3])
                    [] op = "Multiplication" -> NumberValue(a[2] * b[2], a[3] * b[3])
                    [] op = "Division" ->
                          IF b[2] = 0 THEN EvalError("division by zero")
                          ELSE IF b[2] < 0 THEN NumberValue(-(a[2] * b[3]), a[3] * (-b[2]))
                          ELSE NumberValue(a[2] * b[3], a[3] * b[2])
                    [] op = "Modulus" ->
                          IF b[2] = 0 THEN EvalError("division by zero")
                          ELSE IF ~(IsIntegral(a) /\ IsIntegral(b)) THEN EvalError("type mismatch")
                          ELSE LET m == Abs(a[2]) % Abs(b[2])
                               IN  Integer(IF a[2] < 0 THEN -m ELSE m)

evaluateBitwise(op, l, r) ==
    IF ~(IsIntegral(l) /\ IsIntegral(r)) THEN EvalError("type mismatch")
    ELSE CASE op = "BitwiseShiftLeft" ->
                IF r[2] < 0 THEN EvalError("type mismatch") ELSE Integer(l[2] * Pow2(r[2]))
           [] op = "BitwiseShiftRight" ->
                IF r[2] < 0 THEN EvalError("type mismatch") ELSE Integer(l[2] \div Pow2(r[2]))
           [] OTHER -> Integer(Bitwise(op, l[2], r[2]))

valueLess(l, r) ==
    CASE kind(l) = "Number" -> l[2] * r[3] < r[2] * l[3]
      [] kind(l) = "String" -> StringLess(l[2], r[2])
      [] kind(l) = "Boolean" -> ~l[2] /\ r[2]

evaluateComparison(op, l, r) ==
    IF op = "Equal" THEN BooleanValue(l = r)
    ELSE IF op = "NotEqual" THEN BooleanValue(l # r)
    ELSE IF kind(l) # kind(r) \/ kind(l) \notin {"Number", "String", "Boolean"}
    THEN EvalError("type mismatch")
    ELSE CASE op = "Less" -> BooleanValue(valueLess(l, r))
           [] op = "LessOrEqual" -> BooleanValue(~valueLess(r, l))
           [] op = "Greater" -> BooleanValue(valueLess(r, l))
           [] op = "GreaterOrEqual" -> BooleanValue(~valueLess(l, r))

\* The integers lo, lo + 1, ..., hi - 1 as an Array of Numbers.
rangeValue(lo, hi) ==
    IF ~(IsIntegral(lo) /\ IsIntegral(hi)) THEN EvalError("type mismatch")
    ELSE IF lo[2] > hi[2] THEN EvalError("invalid range")
    ELSE ArrayValue([i \in 1 .. (hi[2] - lo[2]) |-> Integer(lo[2] + i - 1)])

IsRange(node) ==
    \/ node[1] = "Binary" /\ node[2] = "BoundedRange"
    \/ node[1] = "Unary" /\ node[2] \in {"LeftBoundedRange", "RightBoundedRange"}

\* One element of a container by a Number or String index.
elementAt(target, index) ==
    CASE kind(target) \in {"Array", "String"} /\ IsIntegral(index) ->
            IF index[2] < 0 \/ index[2] >= Len(target[2]) THEN EvalError("out of bounds")
            ELSE IF kind(target) = "Array" THEN target[2][index[2] + 1]
            ELSE StringValue(<<target[2][index[2] + 1]>>)
      [] kind(target) = "Map" /\ kind(index) = "String" ->
            IF index[2] \in DOMAIN target[2] THEN target[2][index[2]]
            ELSE EvalError("out of bounds")
      [] OTHER -> EvalError("type mismatch")

RECURSIVE FirstError(_)
FirstError(values) ==
    IF values = <<>> THEN NullValue
    ELSE IF IsError(Head(values)) THEN Head(values)
    ELSE FirstError(Tail(values))

RECURSIVE Concat(_)
Concat(strs) == IF strs = <<>> THEN <<>> ELSE Head(strs)[2] \o Concat(Tail(strs))

\* The elements of a container selected by an index value.
subscript(target, index) ==
    IF kind(index) # "Array" THEN elementAt(target, index)
    ELSE LET picked == [i \in DOMAIN index[2] |-> elementAt(target, index[2][i])]
         IN  IF IsError(FirstError(picked)) THEN FirstError(picked)
             ELSE IF kind(target) = "String" THEN StringValue(Concat(picked))
             ELSE ArrayValue(picked)

evaluateUnary(op, v, length) ==
    CASE op = "Group" -> v
      [] op = "Plus" -> IF kind(v) = "Number" THEN v ELSE EvalError("type mismatch")
      [] op = "Minus" ->
            IF kind(v) = "Number" THEN NumberValue(-v[2], v[3])
            ELSE EvalError("type mismatch")
      [] op = "LogicalNegation" ->
            IF IsError(truthy(v)) THEN truthy(v) ELSE BooleanValue(~truthy(v)[2])
      [] op = "BitwiseNegation" ->
            IF IsIntegral(v) THEN Integer(-v[2] - 1) ELSE EvalError("type mismatch")
      [] op = "LeftBoundedRange" ->
            IF length < 0 THEN EvalError("invalid range")
            ELSE rangeValue(v, Integer(length))
      [] op = "RightBoundedRange" ->
            IF length < 0 THEN EvalError("invalid range")
            ELSE rangeValue(Integer(0), v)

RECURSIVE evaluateIn(_, _, _), evaluateElements(_, _, _, _), evaluateSwitch(_, _, _)

\* evaluate with the length of the container being indexed (-1: none),
\* against which an open range end is resolved.
evaluateIn(node, store, length) ==
    CASE node[1] = "Literal" -> node[2]
      [] node[1] = "Variable" ->
            IF node[2] \in DOMAIN store THEN store[node[2]]
            ELSE EvalError("unresolved reference")
      [] node[1] = "Unary" ->
            LET v == evaluateIn(node[3], store, length)
            IN  IF IsError(v) THEN v ELSE evaluateUnary(node[2], v, length)
      [] node[1] = "Binary" ->
            LET op == node[2]
                l == evaluateIn(node[3], store, length)
            IN  IF IsError(l) THEN l
                ELSE IF op \in {"LogicalAnd", "LogicalOr", "Case"}
                THEN LET c == truthy(l)
                     IN  IF IsError(c) THEN c
                         ELSE IF op = "LogicalAnd" /\ ~c[2] THEN BooleanValue(FALSE)
                         ELSE IF op = "LogicalOr" /\ c[2] THEN BooleanValue(TRUE)
                         ELSE IF op = "Case" /\ ~c[2] THEN NullValue
                         ELSE LET r == evaluateIn(node[4], store, length)
                              IN  IF IsError(r) \/ op = "Case" THEN r ELSE truthy(r)
                ELSE LET r == evaluateIn(node[4], store, length)
                     IN  IF IsError(r) THEN r
                         ELSE IF op \in {"Addition", "Subtraction", "Multiplication",
                                         "Division", "Modulus"}
                         THEN evaluateArithmetic(op, l, r)
                         ELSE IF op \in {"BitwiseAnd", "BitwiseOr", "BitwiseXOr",
                                         "BitwiseShiftLeft", "BitwiseShiftRight"}
                         THEN evaluateBitwise(op, l, r)
                         ELSE IF op = "BoundedRange" THEN rangeValue(l, r)
                         ELSE evaluateComparison(op, l, r)
      [] node[1] = "Array" -> evaluateElements(node[2], store, length, <<>>)
      [] node[1] = "Map" ->
            LET values == [k \in DOMAIN node[2] |-> evaluateIn(node[2][k], store, -1)]
                failed == {k \in DOMAIN node[2] : IsError(values[k])}
            IN  IF failed # {} THEN values[CHOOSE k \in failed : TRUE]
                ELSE MapValue(values)
      [] node[1] = "Subscript" ->
            LET target == evaluateIn(node[2], store, length)
            IN  IF IsError(target) THEN target
                ELSE IF kind(target) \notin {"Array", "String", "Map"}
                THEN EvalError("type mismatch")
                ELSE LET index == evaluateIn(node[3], store,
                                     IF kind(target) = "Map" THEN -1 ELSE Len(target[2]))
                     IN  IF IsError(index) THEN index ELSE subscript(target, index)
      [] node[1] = "Switch" -> evaluateSwitch(node[2], store, length)

\* An Array that leaves out the elements that fail.
evaluateElementsSkippingFailed(nodes, store, length, values) ==
    IF nodes = <<>> THEN ArrayValue(values)
    ELSE LET v == evaluateIn(Head(nodes), store, length)
         IN  evaluateElements(Tail(nodes), store, length,
                 IF IsError(v) THEN values
                 ELSE IF IsRange(Head(nodes)) THEN values \o v[2] ELSE Append(values, v))

\* The elements of an Array node from left to right; the sequence a range
\* element denotes is spliced in.
evaluateElements(nodes, store, length, values) ==
    IF nodes = <<>> THEN ArrayValue(values)
    ELSE LET v == evaluateIn(Head(nodes), store, length)
         IN  IF IsError(v) THEN v
             ELSE evaluateElements(Tail(nodes), store, length,
                      IF IsRange(Head(nodes)) THEN values \o v[2] ELSE Append(values, v))

\* The elements of a Switch node in declaration order.
evaluateSwitch(cases, store, length) ==
    IF cases = <<>> THEN NullValue
    ELSE LET case == Head(cases)
         IN  IF case[1] = "Binary" /\ case[2] = "Case"
             THEN LET cond == evaluateIn(case[3], store, length)
                  IN  IF IsError(cond) THEN cond
                      ELSE IF IsError(truthy(cond)) THEN truthy(cond)
                      ELSE IF truthy(cond)[2] THEN evaluateIn(case[4], store, length)
                      ELSE evaluateSwitch(Tail(cases), store, length)
             ELSE evaluateIn(case, store, length)

evaluate(node, store) == evaluateIn(node, store, -1)

(***************************************************************************)
(* Texts                                                                   *)
(***************************************************************************)
RECURSIVE Join(_, _)
Join(pieces, sep) ==
    IF pieces = <<>> THEN <<>>
    ELSE IF Len(pieces) = 1 THEN pieces[1]
    ELSE pieces[1] \o sep \o Join(Tail(pieces), sep)

\* All sequences over S of length lo .. hi.
SeqsOf(S, lo, hi) == UNION {[1 .. n -> S] : n \in lo .. hi}

Space == <<" ">>

(***************************************************************************)
(* Variable stores                                                         *)
(***************************************************************************)
EmptyStore == <<>>

SomeStore ==
    (<<"y">> :> Integer(1)) @@
    (<<"b">> :> ArrayValue(<<Integer(3)>>)) @@
    (<<"a">> :> ArrayValue(<<Integer(10), Integer(20), Integer(30), Integer(40)>>))

Stores == {EmptyStore, SomeStore}

\* No TagManager call has been made.
NoCall == [op |-> "none", name |-> "", threw |-> FALSE, returned |-> <<>>]

(***************************************************************************)
(* What the document, the brush builder and the preferences window hold    *)
(* before anything has been done with them.                                *)
(***************************************************************************)
\* IO::Path(): the empty path.
EmptyPath == ""

\* A map without entities.
NoEntities == <<>>

\* No entityPropertyDidChange has been delivered.
NoChange ==
    [entity |-> 0, oldKey |-> "", oldValue |-> "", newKey |-> "", newValue |-> ""]

\* Nothing was handed to updateEntityDefinition, updateEntityModel or
\* IssueManager::updateObjects.
NoUpdates == [definition |-> {}, model |-> {}, issues |-> {}]

\* createUVSphere has not been called.
NoSphere ==
    [numSides |-> 0, numRings |-> 0, loop |-> "none", i |-> 0, j |-> 0,
     top |-> 0, rings |-> 0, bottom |-> 0]

\* nil, and the pointers that are not nil.
Nil == 0

MaxThreads == 2

Threads == 1 .. MaxThreads

\* No thread holds the lock of the class.
Unlocked == [owner |-> 0, depth |-> 0]

\* A thread that is not inside a method of the class: frames are the calls
\* it is inside of, got is what its last inner call gave back, and returned
\* lists what its calls have returned.
Resting == [pc |-> "resting", frames |-> <<>>, got |-> 0, returned |-> <<>>]

NothingCreated == [controllers |-> 0, listeners |-> 0]

(***************************************************************************)
(* The state machine: a text is tokenized token by token, or parsed in one *)
(* of the two modes and the tree then evaluated against a store.           *)
(***************************************************************************)
InitEL(inputs) ==
    /\ input \in inputs
    /\ text = input.text
    /\ pos = 1
    /\ toks = <<>>
    /\ phase = "start"
    /\ m_mode = "None"
    /\ result = Fail("None", 0)
    /\ variableStore = EmptyStore
    /\ value = NullValue

\* TagManager(): no smart tag is registered.
InitTagManager ==
    /\ m_smartTags = <<>>
    /\ m_currentTagTypeIndex = 0
    /\ called = NoCall
    /\ registered = {}

\* MapDocument::MapDocument(): m_modificationCount(0) and an empty path; no
\* command has been executed.
InitDocument ==
    /\ m_modificationCount = 0
    /\ m_path = EmptyPath
    /\ undoable = 0
    /\ aborted = FALSE

\* The map of the document holds the entities of one of maps, and no property
\* change has been notified.
InitEntities(maps) ==
    /\ m_map \in maps
    /\ notified = NoChange
    /\ updated = NoUpdates

\* The statics of PreferencesWindowController are nil, no thread is inside
\* the class and nothing has been created.
InitPreferencesWindowController ==
    /\ sharedInstance = Nil
    /\ preferencesListener = Nil
    /\ lock = Unlocked
    /\ threads = [t \in Threads |-> Resting]
    /\ heap = NothingCreated

InitWith(inputs) ==
    /\ InitEL(inputs)
    /\ InitTagManager
    /\ InitDocument
    /\ InitEntities({NoEntities})
    /\ sphere = NoSphere
    /\ InitPreferencesWindowController

\* Tokenizer::nextToken, called until the end of the input or an exception.
NextToken ==
    /\ phase \in {"start", "lexing"}
    /\ LET t == emitToken(text, pos)
       IN  /\ toks' = Append(toks, t)
           /\ pos' = t.next
           /\ phase' = IF t.type \in {"Eof", "Error"} THEN "lexed" ELSE "lexing"
    /\ UNCHANGED <<input, text, m_mode, result, variableStore, value>>
    /\ UNCHANGED <<tagVars, docVars, entityVars, sphere, prefVars>>

ParseStrict ==
    /\ phase = "start"
    /\ result' = parseStrict(text)
    /\ m_mode' = "Strict"
    /\ phase' = "parsed"
    /\ UNCHANGED <<input, text, pos, toks, variableStore, value>>
    /\ UNCHANGED <<tagVars, docVars, entityVars, sphere, prefVars>>

ParseLenient ==
    /\ phase = "start"
    /\ result' = parseLenient(text)
    /\ m_mode' = "Lenient"
    /\ phase' = "parsed"
    /\ UNCHANGED <<input, text, pos, toks, variableStore, value>>
    /\ UNCHANGED <<tagVars, docVars, entityVars, sphere, prefVars>>

Evaluate ==
    /\ phase = "parsed"
    /\ result.ok
    /\ \E st \in Stores :
          /\ variableStore' = st
          /\ value' = evaluate(result.node, st)
    /\ phase' = "evaluated"
    /\ UNCHANGED <<input, text, pos, toks, m_mode, result>>
    /\ UNCHANGED <<tagVars, docVars, entityVars, sphere, prefVars>>

Next == NextToken \/ ParseStrict \/ ParseLenient \/ Evaluate

(***************************************************************************)
(* Trailing input: a complete expression, then leftover lexemes.           *)
(***************************************************************************)
MaxLeftover == 2

Number(n) == LiteralExpression(Integer(n))

\* Complete expressions with the tree each denotes.
LeadingExpressions ==
    { [text |-> <<"1"," ","+"," ","2">>,
       tree |-> BinaryExpression("Addition", Number(1), Number(2))],
      [text |-> <<"x">>,
       tree |-> VariableExpression(<<"x">>)],
      [text |-> <<"(","1",")">>,
       tree |-> UnaryExpression("Group", Number(1))],
      [text |-> <<"-","a","[","0","]">>,
       tree |-> UnaryExpression("Minus",
                    SubscriptExpression(VariableExpression(<<"a">>), Number(0)))],
      [text |-> <<"[","1",","," ","2","]">>,
       tree |-> ArrayExpression(<<Number(1), Number(2)>>)],
      [text |-> <<"{","{"," ","y"," ","-",">"," ","1"," ","}","}">>,
       tree |-> SwitchExpression(<<BinaryExpression("Case",
                    VariableExpression(<<"y">>), Number(1))>>)],
      [text |-> <<"{","k",":"," ","\"","s","\"","}">>,
       tree |-> MapExpression(<<"k">> :> LiteralExpression(StringValue(<<"s">>)))] }

\* Leftover lexemes that are tokens no expression continues with.
LeftoverTokens ==
    { <<"g","a","r","b","a","g","e">>, <<"3">>, <<")">>, <<"]">>, <<",">>,
      <<".",".">>, <<"}">>, <<"\"","t","\"">> }

\* Leftover characters no token starts with.
LeftoverCharacters == { <<"$">>, <<"#">> }

TrailingInputs ==
    { [text |-> Join(<<e.text>> \o g, Space), expr |-> e, leftover |-> g] :
        e \in LeadingExpressions,
        g \in SeqsOf(LeftoverTokens \cup LeftoverCharacters, 0, MaxLeftover) }

InitTrailing == InitWith(TrailingInputs)

SpecTrailing == InitTrailing /\ [][Next]_vars

\* C1: a complete expression followed by a token that cannot continue it
\* makes parseStrict fail with a parse error at the first leftover token and
\* parseLenient return exactly the tree of the leading expression.
C1_TrailingToken ==
    (phase = "parsed" /\ input.leftover # <<>> /\ input.leftover[1] \in LeftoverTokens)
    => IF m_mode = "Strict"
       THEN ~result.ok /\ result.err = "ParseError"
            /\ result.at = Len(input.expr.text) + 2
       ELSE result.ok /\ result.node = input.expr.tree

C1_Witness ==
    /\ phase = "parsed"
    /\ m_mode = "Lenient"
    /\ input.expr.text = <<"1"," ","+"," ","2">>
    /\ input.leftover = << <<"g","a","r","b","a","g","e">> >>
    /\ result.ok

\* C2: parseLenient ignores all trailing input: whatever characters follow
\* a complete expression (none of them begins with a binary operator or a
\* '['), it returns the tree of the expression.
C2_LenientIgnoresAll ==
    (phase = "parsed" /\ m_mode = "Lenient" /\ input.leftover # <<>>)
    => result.ok /\ result.node = input.expr.tree

(***************************************************************************)
(* Chains: t0 op1 t1 ... opn tn, the lexemes a space apart.                *)
(***************************************************************************)
MaxOperators == 2

\* The binary operators as written, with the operation each denotes.
BinaryOperators ==
    { [text |-> <<"+">>, op |-> "Addition"],
      [text |-> <<"-">>, op |-> "Subtraction"],
      [text |-> <<"*">>, op |-> "Multiplication"],
      [text |-> <<"/">>, op |-> "Division"],
      [text |-> <<"%">>, op |-> "Modulus"],
      [text |-> <<"&","&">>, op |-> "LogicalAnd"],
      [text |-> <<"|","|">>, op |-> "LogicalOr"],
      [text |-> <<"&">>, op |-> "BitwiseAnd"],
      [text |-> <<"^">>, op |-> "BitwiseXOr"],
      [text |-> <<"|">>, op |-> "BitwiseOr"],
      [text |-> <<"<","<">>, op |-> "BitwiseShiftLeft"],
      [text |-> <<">",">">>, op |-> "BitwiseShiftRight"],
      [text |-> <<"<">>, op |-> "Less"],
      [text |-> <<"<","=">>, op |-> "LessOrEqual"],
      [text |-> <<">">>, op |-> "Greater"],
      [text |-> <<">","=">>, op |-> "GreaterOrEqual"],
      [text |-> <<"=","=">>, op |-> "Equal"],
      [text |-> <<"!","=">>, op |-> "NotEqual"],
      [text |-> <<"-",">">>, op |-> "Case"] }

\* Every operator may come first in a chain; these may follow it.
LaterOperators ==
    {o \in BinaryOperators :
        o.op \in {"Addition", "Multiplication", "LogicalAnd", "Case", "BitwiseAnd"}}

OperatorsAt(i) == IF i = 1 THEN BinaryOperators ELSE LaterOperators

Term(txt, tree, grouped) == [text |-> txt, tree |-> tree, grouped |-> grouped]

\* The operands a chain may hold at its i-th place (from 0), with the tree
\* each denotes; a grouped operand is a parenthesized one.
TermsAt(i) ==
    CASE i = 0 -> { Term(<<"1">>, Number(1), FALSE),
                    Term(<<"y">>, VariableExpression(<<"y">>), FALSE) }
      [] i = 1 -> { Term(<<"2">>, Number(2), FALSE),
                    Term(<<"-","y">>,
                         UnaryExpression("Minus", VariableExpression(<<"y">>)), FALSE),
                    Term(<<"(","2",")">>, UnaryExpression("Group", Number(2)), TRUE) }
      [] i = 2 -> { Term(<<"3">>, Number(3), FALSE),
                    Term(<<"b","[","0","]">>,
                         SubscriptExpression(VariableExpression(<<"b">>), Number(0)),
                         FALSE) }
      [] OTHER -> { Term(<<"4">>, Number(4), FALSE) }

\* The chains of n operators, each with its text.
RECURSIVE ChainsOf(_)
ChainsOf(n) ==
    IF n = 0
    THEN { [text |-> t.text, terms |-> <<t>>, ops |-> <<>>] : t \in TermsAt(0) }
    ELSE { [text |-> c.text \o Space \o o.text \o Space \o t.text,
            terms |-> Append(c.terms, t),
            ops |-> Append(c.ops, o)] :
              c \in ChainsOf(n - 1), o \in OperatorsAt(n), t \in TermsAt(n) }

ChainInputs == UNION {ChainsOf(n) : n \in 0 .. MaxOperators}

\* Binary(opn, ... Binary(op2, Binary(op1, t0, t1), t2) ..., tn)
RECURSIVE LeftNested(_, _)
LeftNested(terms, ops) ==
    IF ops = <<>> THEN terms[1].tree
    ELSE BinaryExpression(ops[Len(ops)].op,
             LeftNested(SubSeq(terms, 1, Len(terms) - 1), SubSeq(ops, 1, Len(ops) - 1)),
             terms[Len(terms)].tree)

InitChain == InitWith(ChainInputs)

SpecChain == InitChain /\ [][Next]_vars

Unparenthesized(terms) == \A i \in DOMAIN terms : ~terms[i].grouped

\* C3: all binary operators share one precedence level and associate left
\* to right: a chain of unparenthesized simple terms parses to the
\* left-nested tree, and 1 + 2 * 3 evaluates to 9.
C3_FlatLeftAssociative ==
    /\ (phase = "parsed" /\ Unparenthesized(input.terms))
       => result.ok /\ result.node = LeftNested(input.terms, input.ops)
    /\ (phase = "evaluated" /\ text = <<"1"," ","+"," ","2"," ","*"," ","3">>)
       => value = Integer(9)

C3_Witness ==
    /\ phase = "evaluated"
    /\ text = <<"1"," ","+"," ","2"," ","*"," ","3">>
    /\ result.node = BinaryExpression("Multiplication",
                         BinaryExpression("Addition", Number(1), Number(2)), Number(3))

\* C4: a parenthesized operand inside a chain is a single operand and the
\* chain stays left-associative: a op1 (b) op2 c parses to
\* Binary(op2, Binary(op1, a, Group(b)), c).
C4_GroupedOperand ==
    (phase = "parsed" /\ Len(input.ops) = 2 /\ input.terms[2].grouped)
    => result.ok /\ result.node = LeftNested(input.terms, input.ops)

(***************************************************************************)
(* Map literals: { k1: v1, k2: v2, ... }                                   *)
(***************************************************************************)
MaxEntries == 3

\* Keys as written (a name or a string) with the key each denotes.
MapKeys ==
    { [text |-> <<"a">>, key |-> <<"a">>],
      [text |-> <<"\"","b","\"">>, key |-> <<"b">>] }

MapEntries == { [key |-> k, n |-> n] : k \in MapKeys, n \in 1 .. 2 }

EntryText(e) == e.key.text \o <<":", " ">> \o <<AsciiOrder[17 + e.n]>>

RECURSIVE EntriesText(_)
EntriesText(entries) ==
    IF entries = <<>> THEN <<>>
    ELSE IF Len(entries) = 1 THEN EntryText(entries[1])
    ELSE EntryText(entries[1]) \o <<",", " ">> \o EntriesText(Tail(entries))

MapInputs ==
    { [text |-> <<"{">> \o EntriesText(e) \o <<"}">>, entries |-> e] :
        e \in SeqsOf(MapEntries, 0, MaxEntries) }

InitMap == InitWith(MapInputs)

SpecMap == InitMap /\ [][Next]_vars

\* The index of the last entry of entries written with key k.
LastOccurrence(entries, k) ==
    CHOOSE i \in DOMAIN entries :
        /\ entries[i].key.key = k
        /\ \A j \in DOMAIN entries : entries[j].key.key = k => j <= i

\* C5: for a map literal in which a key occurs more than once, the Map node
\* holds, for that key, the value expression of the last occurrence.
C5_LastDuplicateWins ==
    phase = "parsed"
    => /\ result.ok
       /\ result.node[1] = "Map"
       /\ DOMAIN result.node[2] = {input.entries[i].key.key : i \in DOMAIN input.entries}
       /\ \A k \in DOMAIN result.node[2] :
             result.node[2][k] = Number(input.entries[LastOccurrence(input.entries, k)].n)

(***************************************************************************)
(* Lexemes: a few lexemes in a row, set apart by a space or by nothing.    *)
(***************************************************************************)
MaxLexemes == 2

\* Identifiers that begin with a keyword and go on.
LongIdentifiers ==
    { <<"n","u","l","l","a","b","l","e">>,
      <<"t","r","u","e","_","c","o","l","o","r">>,
      <<"f","a","l","s","e","y">> }

Keywords == { <<"t","r","u","e">>, <<"f","a","l","s","e">>, <<"n","u","l","l">> }

Lexemes ==
    LongIdentifiers \cup Keywords \cup
    { <<"=">>, <<"=","=">>, <<"!","=">>, <<"a">>, <<"1">> }

LexemeInputs ==
    { [text |-> Join(l, sep), lexemes |-> l, sep |-> sep] :
        l \in SeqsOf(Lexemes, 1, MaxLexemes), sep \in {<<>>, Space} }

InitLexemes == InitWith(LexemeInputs)

SpecLexemes == InitLexemes /\ [][Next]_vars

\* C6: a lone '=' is a lexical error: an Equal token is emitted only for
\* the two characters '=='.
C6_LoneEqualIsError ==
    \A i \in DOMAIN toks :
        toks[i].type = "Equal" => data(text, toks[i]) = <<"=","=">>

IdentifierCharacter(c) == isLetter(c) \/ isDigit(c) \/ c = "_"

\* C7: true, false and null are recognized by exact match only: a Boolean
\* or Null token is a whole word, and a longer identifier that starts with
\* a keyword is one Name token holding all of it.
C7_KeywordsExactMatch ==
    /\ \A i \in DOMAIN toks :
          toks[i].type \in {"Boolean", "Null"} =>
              /\ data(text, toks[i]) \in Keywords
              /\ ~IdentifierCharacter(curChar(text, toks[i].e))
    /\ (phase = "lexed" /\ Len(input.lexemes) = 1 /\ input.lexemes[1] \in LongIdentifiers)
       => /\ Len(toks) = 2
          /\ toks[1].type = "Name"
          /\ data(text, toks[1]) = input.lexemes[1]

(***************************************************************************)
(* Guarded expressions: false && X and true || X.                          *)
(***************************************************************************)
\* Single operands: a simple term with its subscripts, a parenthesized
\* expression or a switch. x is in no store and 1 / 0 divides by zero.
Operands ==
    { <<"x">>,
      <<"0">>,
      <<"(","1"," ","/"," ","0",")">>,
      <<"(","x"," ","+"," ","1",")">>,
      <<"x","[","0","]">>,
      <<"-","x">>,
      <<"!","x">>,
      <<"[","x","]">>,
      <<"{","{"," ","x"," ","}","}">>,
      <<"{","k",":"," ","x","}">> }

\* The operators that may join two operands of X.
JoiningOperators == { <<"/">>, <<"+">>, <<"&","&">>, <<"=","=">>, <<"-",">">> }

\* X is one operand, or two operands joined by a binary operator.
GuardedTexts ==
    { [text |-> t, single |-> TRUE] : t \in Operands } \cup
    { [text |-> l \o Space \o o \o Space \o r, single |-> FALSE] :
        l \in Operands, o \in JoiningOperators, r \in Operands }

Guards ==
    { [text |-> <<"f","a","l","s","e"," ","&","&"," ">>, yields |-> FALSE],
      [text |-> <<"t","r","u","e"," ","|","|"," ">>, yields |-> TRUE] }

GuardedInputs ==
    { [text |-> g.text \o x.text, guard |-> g, X |-> x] :
        g \in Guards, x \in GuardedTexts }

InitGuarded == InitWith(GuardedInputs)

SpecGuarded == InitGuarded /\ [][Next]_vars

MaxElements == 2

\* The elements as written. An element is a case (its condition truthy,
\* falsy or raising an error) or a plain expression; yields is what it
\* contributes when it is the element that decides. x is in no store.
SwitchElements ==
    { [text |-> <<"f","a","l","s","e"," ","-",">"," ","1">>,
       case |-> TRUE, cond |-> "falsy", yields |-> Integer(1)],
      [text |-> <<"t","r","u","e"," ","-",">"," ","3">>,
       case |-> TRUE, cond |-> "truthy", yields |-> Integer(3)],
      [text |-> <<"\"","s","\""," ","-",">"," ","\"","t","\"">>,
       case |-> TRUE, cond |-> "truthy", yields |-> StringValue(<<"t">>)],
      [text |-> <<"n","u","l","l"," ","-",">"," ","x">>,
       case |-> TRUE, cond |-> "falsy", yields |-> EvalError("unresolved reference")],
      [text |-> <<"1"," ","-",">"," ","x">>,
       case |-> TRUE, cond |-> "truthy", yields |-> EvalError("unresolved reference")],
      [text |-> <<"x"," ","-",">"," ","5">>,
       case |-> TRUE, cond |-> "error", yields |-> EvalError("unresolved reference")],
      [text |-> <<"2">>,
       case |-> FALSE, cond |-> "none", yields |-> Integer(2)],
      [text |-> <<"x">>,
       case |-> FALSE, cond |-> "none", yields |-> EvalError("unresolved reference")] }

SwitchText(elements) ==
    <<"{","{"," ">> \o Join([i \in DOMAIN elements |-> elements[i].text], <<","," ">>)
    \o (IF elements = <<>> THEN <<>> ELSE Space) \o <<"}","}">>

SwitchInputs ==
    { [text |-> SwitchText(e), elements |-> e] :
        e \in SeqsOf(SwitchElements, 0, MaxElements) }

InitSwitch == InitWith(SwitchInputs)

SpecSwitch == InitSwitch /\ [][Next]_vars

\* The elements that decide a switch: a case whose condition is not falsy,
\* or a plain expression.
Deciding(elements) == { i \in DOMAIN elements : elements[i].cond # "falsy" }

\* What the switch is to yield: the contribution of the first deciding
\* element, whatever the later elements are, and Null when there is none.
SwitchYields(elements) ==
    IF Deciding(elements) = {} THEN NullValue
    ELSE LET first == CHOOSE i \in Deciding(elements) :
                          \A j \in Deciding(elements) : i <= j
         IN  elements[first].yields

\* C9: a switch evaluates its elements in declaration order and stops at
\* the first that is a case with a truthy condition (yielding its result)
\* or a plain expression (yielding its value); nothing of a later element
\* is evaluated, and Null is the value when no element qualifies.
C9_SwitchFirstMatch ==
    /\ phase = "parsed" => result.ok /\ result.node[1] = "Switch"
                           /\ Len(result.node[2]) = Len(input.elements)
    /\ phase = "evaluated" => value = SwitchYields(input.elements)

\* {{ false -> 1, 2 }} has been evaluated to 2.
C9_Witness ==
    /\ phase = "evaluated"
    /\ text = <<"{","{"," ","f","a","l","s","e"," ","-",">"," ","1",","," ","2"," ","}","}">>
    /\ value = Integer(2)

(***************************************************************************)
(* Rendering of literal values (EL::Value::appendToStream)                 *)
(***************************************************************************)
\* kdl::str_escape(str, "\\\""): a backslash goes before every backslash
\* and every double quote.
RECURSIVE str_escape(_)
str_escape(str) ==
    IF str = <<>> THEN <<>>
    ELSE (IF Head(str) \in {EscapeChar, "\""} THEN <<EscapeChar, Head(str)>>
          ELSE <<Head(str)>>) \o str_escape(Tail(str))

\* A natural number in base ten.
RECURSIVE renderNatural(_)
renderNatural(n) ==
    IF n < 10 THEN <<AsciiOrder[17 + n]>>
    ELSE renderNatural(n \div 10) \o <<AsciiOrder[17 + (n % 10)]>>

\* A Number n / d, d dividing ten, with its sign and at most one decimal.
renderNumber(n, d) ==
    LET tenths == (Abs(n) * 10) \div d
    IN  (IF n < 0 THEN <<"-">> ELSE <<>>)
        \o renderNatural(tenths \div 10)
        \o (IF tenths % 10 = 0 THEN <<>> ELSE <<".">> \o renderNatural(tenths % 10))

Quoted(str) == <<"\"">> \o str \o <<"\"">>

\* The keys of a Map in the order the Map iterates them.
RECURSIVE keysInOrder(_)
keysInOrder(keys) ==
    IF keys = {} THEN <<>>
    ELSE LET least == CHOOSE k \in keys : \A o \in keys \ {k} : StringLess(k, o)
         IN  <<least>> \o keysInOrder(keys \ {least})

\* The text of a literal value.  Strings are written escaped between double
\* quotes; the keys of a Map are written escaped or as they are, by
\* escapeKeys; the elements are set apart by ", " and padded inside the
\* braces of a Map.
RECURSIVE render(_, _)
render(v, escapeKeys) ==
    CASE kind(v) = "Null" -> <<"n","u","l","l">>
      [] kind(v) = "Boolean" ->
            (IF v[2] THEN <<"t","r","u","e">> ELSE <<"f","a","l","s","e">>)
      [] kind(v) = "Number" -> renderNumber(v[2], v[3])
      [] kind(v) = "String" -> Quoted(str_escape(v[2]))
      [] kind(v) = "Array" ->
            <<"[">> \o Join([i \in DOMAIN v[2] |-> render(v[2][i], escapeKeys)], <<","," ">>)
            \o <<"]">>
      [] kind(v) = "Map" ->
            LET keys == keysInOrder(DOMAIN v[2])
                entry(k) == Quoted(IF escapeKeys THEN str_escape(k) ELSE k)
                            \o <<":"," ">> \o render(v[2][k], escapeKeys)
            IN  IF keys = <<>> THEN <<"{","}">>
                ELSE <<"{"," ">> \o Join([i \in DOMAIN keys |-> entry(keys[i])], <<","," ">>)
                     \o <<" ","}">>

(***************************************************************************)
(* Literal values, nested to MaxDepth.                                     *)
(***************************************************************************)
MaxDepth == 2

LiteralAtoms ==
    { NullValue, BooleanValue(TRUE), Integer(0), Integer(-3), NumberValue(3, 2),
      StringValue(<<"s">>), StringValue(<<"q","\"">>), StringValue(<<"b","\\">>) }

\* The atoms the two-element Arrays and Maps are made of.
PairAtoms == { NullValue, Integer(-3), StringValue(<<"s">>) }

LiteralKeys == { <<"k">>, <<"q","\"">>, <<"b","\\">> }

RECURSIVE LiteralValues(_)
LiteralValues(depth) ==
    IF depth = 0 THEN LiteralAtoms
    ELSE LET inner == LiteralValues(depth - 1)
         IN  LiteralAtoms
             \cup { ArrayValue(<<>>), MapValue(<<>>) }
             \cup { ArrayValue(<<v>>) : v \in inner }
             \cup { ArrayValue(<<v, w>>) : v \in PairAtoms, w \in PairAtoms }
             \cup { MapValue(k :> v) : k \in LiteralKeys, v \in inner }
             \cup UNION { { MapValue(k :> v @@ l :> w) :
                              l \in LiteralKeys \ {k},
                              v \in PairAtoms, w \in PairAtoms } : k \in LiteralKeys }

RenderedInputs ==
    { [text |-> render(v, e), v |-> v, escapeKeys |-> e] :
        v \in LiteralValues(MaxDepth), e \in BOOLEAN }

InitRendered == InitWith(RenderedInputs)

SpecRendered == InitRendered /\ [][Next]_vars

\* C10: round trip: for every literal value v (Numbers, Strings, Booleans,
\* Null, Arrays and Maps of literals, with quotes and backslashes in strings
\* and keys), parseStrict accepts render(v) and the tree evaluates to v in
\* any store.
C10_RoundTrip ==
    m_mode = "Strict" =>
        /\ phase = "parsed" => result.ok
        /\ phase = "evaluated" => value = input.v

\* The same round trip for the values whose Maps have plain keys only.
RECURSIVE PlainKeys(_)
PlainKeys(v) ==
    CASE kind(v) = "Array" -> \A i \in DOMAIN v[2] : PlainKeys(v[2][i])
      [] kind(v) = "Map" ->
            \A k \in DOMAIN v[2] : k = str_escape(k) /\ PlainKeys(v[2][k])
      [] OTHER -> TRUE

RoundTripPlainKeys == PlainKeys(input.v) => C10_RoundTrip

(***************************************************************************)
(* Slices: t[i..j], t[..j] and t[i..] of an array t.                       *)
(***************************************************************************)
MaxLength == 4

\* The array 10, 20, ..., 10 * n.
Tens(n) == [k \in 1 .. n |-> Integer(10 * k)]

\* The targets as written: an array literal of n elements, or the name a,
\* which SomeStore binds to the array of four.
SliceTargets ==
    { [text |-> render(ArrayValue(Tens(n)), TRUE), elements |-> Tens(n), named |-> FALSE] :
        n \in 0 .. MaxLength } \cup
    { [text |-> <<"a">>, elements |-> SomeStore[<<"a">>][2], named |-> TRUE] }

SliceForms == {"bounded", "openLow", "openHigh"}

SliceText(target, form, i, j) ==
    target.text \o <<"[">>
    \o (IF form = "openLow" THEN <<>> ELSE renderNatural(i))
    \o <<".", ".">>
    \o (IF form = "openHigh" THEN <<>> ELSE renderNatural(j))
    \o <<"]">>

SliceInputs ==
    UNION { { [text |-> SliceText(t, f, i, j), target |-> t, form |-> f, i |-> i, j |-> j] :
                f \in SliceForms, i \in 0 .. Len(t.elements), j \in 0 .. Len(t.elements) } :
            t \in SliceTargets }

InitSlice == InitWith(SliceInputs)

SpecSlice == InitSlice /\ [][Next]_vars

\* The bounds a slice stands for: an open low end is 0, an open high end
\* is the length of the array.
SliceLow == IF input.form = "openLow" THEN 0 ELSE input.i

SliceHigh == IF input.form = "openHigh" THEN Len(input.target.elements) ELSE input.j

\* C11: range slicing is exclusive-high and open ends are resolved against
\* the array: for 0 <= i <= j <= n, a[i..j] is the array of the elements
\* i .. j-1 in order, a[..j] is a[0..j] and a[i..] is a[i..n].
C11_RangeSlicing ==
    (/\ phase = "evaluated"
     /\ SliceLow <= SliceHigh
     /\ input.target.named => variableStore = SomeStore)
    => value = ArrayValue(SubSeq(input.target.elements, SliceLow + 1, SliceHigh))

\* a[1..3], a[..2] and a[2..] of a = [10, 20, 30, 40] are [20, 30],
\* [10, 20] and [30, 40]; here a[2..] has been evaluated.
C11_Witness ==
    /\ phase = "evaluated"
    /\ text = <<"a","[","2",".",".","]">>
    /\ variableStore = SomeStore
    /\ value = ArrayValue(<<Integer(30), Integer(40)>>)

(***************************************************************************)
(* Failing subexpressions inside enclosing expressions.                    *)
(***************************************************************************)
MaxNesting == 2

\* Operands whose evaluation fails in every store: an unresolved variable,
\* a division and a modulus by zero, a type mismatch.
FailingOperands ==
    { <<"X">>,
      <<"(","1"," ","/"," ","0",")">>,
      <<"(","1"," ","%"," ","0",")">>,
      <<"(","-","[","1","]",")">> }

\* The enclosing expressions, each a single operand whose evaluation
\* reaches the operand t it encloses.
Enclosings ==
    { "left", "right", "unary", "element", "value", "index", "target",
      "default", "result", "condition", "and", "or" }

Enclose(c, t) ==
    CASE c = "left" -> <<"(">> \o t \o <<" ","+"," ","1",")">>
      [] c = "right" -> <<"(","1"," ","-"," ">> \o t \o <<")">>
      [] c = "unary" -> <<"-">> \o t
      [] c = "element" -> <<"[","1",","," ">> \o t \o <<"]">>
      [] c = "value" -> <<"{","k",":"," ">> \o t \o <<" ","}">>
      [] c = "index" -> <<"[","7",","," ","8","]","[">> \o t \o <<"]">>
      [] c = "target" -> <<"!">> \o t \o <<"[","0","]">>
      [] c = "default" -> <<"{","{"," ">> \o t \o <<" ","}","}">>
      [] c = "result" -> <<"{","{"," ","t","r","u","e"," ","-",">"," ">> \o t \o <<" ","}","}">>
      [] c = "condition" -> <<"{","{"," ">> \o t \o <<" ","-",">"," ","1"," ","}","}">>
      [] c = "and" -> <<"(","t","r","u","e"," ","&","&"," ">> \o t \o <<")">>
      [] c = "or" -> <<"(","f","a","l","s","e"," ","|","|"," ">> \o t \o <<")">>

\* An operand enclosed n times over.
RECURSIVE EnclosedTexts(_)
EnclosedTexts(n) ==
    IF n = 0 THEN { [text |-> f, failing |-> f, enclosings |-> <<>>] : f \in FailingOperands }
    ELSE { [text |-> Enclose(c, e.text), failing |-> e.failing,
            enclosings |-> <<c>> \o e.enclosings] :
             c \in Enclosings, e \in EnclosedTexts(n - 1) }

EnclosedInputs == UNION { EnclosedTexts(n) : n \in 0 .. MaxNesting }

InitEnclosed == InitWith(EnclosedInputs)

SpecEnclosed == InitEnclosed /\ [][Next]_vars

\* C12: evaluation is fail-fast: when a subexpression that the evaluation
\* reaches fails, the evaluation of the whole tree fails with that error;
\* no enclosing operator, Array, Map, Subscript or Switch yields a value.
C12_FailFast ==
    phase = "evaluated" =>
        /\ IsError(value)
        /\ value = evaluate(parseStrict(input.failing).node, variableStore)

\* The Map { k: [1, X] } has been evaluated, to the error of X.
C12_Witness ==
    /\ phase = "evaluated"
    /\ input.failing = <<"X">>
    /\ input.enclosings = <<"value", "element">>
    /\ value = EvalError("unresolved reference")

(***************************************************************************)
(* Subscripts: t[e1, ..., en] and t[[e1, ..., en]].                        *)
(***************************************************************************)
MaxArguments == 2

\* The targets as written, with the tree each denotes.
SubscriptTargets ==
    { [text |-> <<"a">>, tree |-> VariableExpression(<<"a">>)],
      [text |-> <<"{","a",":"," ","1",","," ","b",":"," ","2","}">>,
       tree |-> MapExpression((<<"a">> :> Number(1)) @@ (<<"b">> :> Number(2)))] }

\* The arguments as written, with the tree each denotes; open tells the
\* ranges with an open end.
SubscriptArguments ==
    { [text |-> <<"\"","a","\"">>, open |-> FALSE,
       tree |-> LiteralExpression(StringValue(<<"a">>))],
      [text |-> <<"\"","b","\"">>, open |-> FALSE,
       tree |-> LiteralExpression(StringValue(<<"b">>))],
      [text |-> <<"0">>, open |-> FALSE, tree |-> Number(0)],
      [text |-> <<"y"," ","+"," ","1">>, open |-> FALSE,
       tree |-> BinaryExpression("Addition", VariableExpression(<<"y">>), Number(1))],
      [text |-> <<"1",".",".","3">>, open |-> FALSE,
       tree |-> BinaryExpression("BoundedRange", Number(1), Number(3))],
      [text |-> <<".",".","2">>, open |-> TRUE,
       tree |-> UnaryExpression("RightBoundedRange", Number(2))],
      [text |-> <<"1",".",".">>, open |-> TRUE,
       tree |-> UnaryExpression("LeftBoundedRange", Number(1))] }

\* flat: t[e1, ..., en]; array: t[[e1, ..., en]].
SubscriptInputs ==
    { [text |-> t.text
                \o (IF flat THEN <<"[">> ELSE <<"[","[">>)
                \o Join([i \in DOMAIN args |-> args[i].text], <<","," ">>)
                \o (IF flat THEN <<"]">> ELSE <<"]","]">>),
       target |-> t, arguments |-> args, flat |-> flat] :
        t \in SubscriptTargets, args \in SeqsOf(SubscriptArguments, 1, MaxArguments),
        flat \in BOOLEAN }

InitSubscript == InitWith(SubscriptInputs)

SpecSubscript == InitSubscript /\ [][Next]_vars

ArgumentTrees == [i \in DOMAIN input.arguments |-> input.arguments[i].tree]

\* The tree both ways of writing are to give: the single argument itself
\* when one is written flat, else the Array of the arguments in order.
SubscriptTree ==
    SubscriptExpression(input.target.tree,
        IF input.flat /\ Len(input.arguments) = 1 THEN ArgumentTrees[1]
        ELSE ArrayExpression(ArgumentTrees))

SomeOpen == \E i \in DOMAIN input.arguments : input.arguments[i].open

GroupedTerms ==
    { [text |-> <<"a">>, tree |-> VariableExpression(<<"a">>)],
      [text |-> <<"b">>, tree |-> VariableExpression(<<"b">>)],
      [text |-> <<"[","7",","," ","8","]">>,
       tree |-> ArrayExpression(<<Number(7), Number(8)>>)] }

\* Where the subscripted term stands.
GroupPlaces ==
    { "top", "element", "value", "switch", "operand", "negated" }

PlaceText(place, t) ==
    CASE place = "top" -> t
      [] place = "element" -> <<"[">> \o t \o <<"]">>
      [] place = "value" -> <<"{","k",":"," ">> \o t \o <<" ","}">>
      [] place = "switch" -> <<"{","{"," ">> \o t \o <<" ","}","}">>
      [] place = "operand" -> <<"1"," ","+"," ">> \o t
      [] place = "negated" -> <<"-">> \o t

PlaceTree(place, tree) ==
    CASE place = "top" -> tree
      [] place = "element" -> ArrayExpression(<<tree>>)
      [] place = "value" -> MapExpression(<<"k">> :> tree)
      [] place = "switch" -> SwitchExpression(<<tree>>)
      [] place = "operand" -> BinaryExpression("Addition", Number(1), tree)
      [] place = "negated" -> UnaryExpression("Minus", tree)

GroupSubscriptInputs ==
    { [text |-> PlaceText(place, <<"(">> \o t.text \o <<")","[">> \o renderNatural(i) \o <<"]">>),
       place |-> place,
       tree |-> PlaceTree(place, SubscriptExpression(UnaryExpression("Group", t.tree),
                                                     Number(i)))] :
        place \in GroupPlaces, t \in GroupedTerms, i \in 0 .. 1 }

InitGroupSubscript == InitWith(GroupSubscriptInputs)

SpecGroupSubscript == InitGroupSubscript /\ [][Next]_vars

\* C14: a subscript chain may follow a parenthesized term wherever an
\* expression is allowed: (a)[0] at the top level, as array element, map
\* value or switch element parses in Strict mode to Subscript(Group(a), 0),
\* as it does as the operand of a binary or unary operator.
C14_GroupSubscript ==
    (phase = "parsed" /\ m_mode = "Strict")
    => result.ok /\ result.node = input.tree

\* The same for the operand places alone.
GroupSubscriptAsOperand ==
    input.place \in {"operand", "negated"} => C14_GroupSubscript

(***************************************************************************)
(* Switch elements by position: the same element first and later.          *)
(***************************************************************************)
MaxPosition == 3

\* Element texts, some of them no expression at all.
SwitchElementTexts ==
    { <<"1">>, <<"x">>, <<"\"","s","\"">>, <<"(","1",")">>, <<"-","x">>,
      <<"[","1","]">>, <<"{","}">>, <<"x"," ","-",">"," ","1">>,
      <<"{","{"," ","2"," ","}","}">>, <<"{","{","}","}">>,
      <<"{","{"," ","x",","," ","1"," ","}","}">>,
      <<"*">>, <<")">> }

\* Elements that stand beside the one that moves.
Companions == { <<"1">>, <<"y">> }

\* The elements e1, ..., en written as {{ e1, ..., en }}.
Braced(elements) ==
    <<"{","{"," ">> \o Join(elements, <<","," ">>) \o <<" ","}","}">>

\* Each element at position k >= 2 after k - 1 companions, together with
\* the text that has it first and the companions behind it.
PositionInputs ==
    { [text |-> Braced(c \o <<e>>),
       moved |-> Braced(<<e>> \o c),
       position |-> Len(c) + 1] :
        e \in SwitchElementTexts,
        c \in UNION { [1 .. n -> Companions] : n \in 1 .. MaxPosition - 1 } }

InitPosition == InitWith(PositionInputs)

SpecPosition == InitPosition /\ [][Next]_vars

\* C15: a text accepted as the second or a later element of a switch is
\* also accepted as its first element and yields the same element node.
C15_AnyElementFirst ==
    (phase = "parsed" /\ result.ok)
    => LET first == parse(m_mode, input.moved)
       IN  /\ first.ok
           /\ first.node[2][1] = result.node[2][input.position]

\* The same for the elements that are no switch themselves.
AnyElementFirstButSwitch ==
    \/ phase = "parsed" /\ result.ok /\ result.node[2][input.position][1] = "Switch"
    \/ C15_AnyElementFirst

(***************************************************************************)
(* Ranges as subscript arguments: x[..b], x[a..b], x[a..].                 *)
(***************************************************************************)
MaxRanges == 2

\* The bounds as written, with the tree each denotes.
RangeBounds ==
    { [text |-> <<"1">>, tree |-> Number(1)],
      [text |-> <<"(","2",")">>, tree |-> UnaryExpression("Group", Number(2))],
      [text |-> <<"-","n">>, tree |-> UnaryExpression("Minus", VariableExpression(<<"n">>))],
      [text |-> <<"{","{"," ","2"," ","}","}">>, tree |-> SwitchExpression(<<Number(2)>>)] }

\* The three forms, by the side of the .. token the bounds stand on.
RangeArguments ==
    { [form |-> "low", text |-> <<".",".">> \o b.text, upper |-> b.text,
       tree |-> UnaryExpression("RightBoundedRange", b.tree)] : b \in RangeBounds }
    \cup
    { [form |-> "both", text |-> a.text \o <<".",".">> \o b.text, upper |-> b.text,
       tree |-> BinaryExpression("BoundedRange", a.tree, b.tree)] :
        a \in RangeBounds, b \in RangeBounds }
    \cup
    { [form |-> "high", text |-> a.text \o <<".",".">>, upper |-> <<>>,
       tree |-> UnaryExpression("LeftBoundedRange", a.tree)] : a \in RangeBounds }

RangeInputs ==
    { [text |-> <<"x","[">>
                \o Join([i \in DOMAIN args |-> args[i].text], <<","," ">>)
                \o <<"]">>,
       arguments |-> args] :
        args \in SeqsOf(RangeArguments, 1, MaxRanges) }

InitRange == InitWith(RangeInputs)

SpecRange == InitRange /\ [][Next]_vars

RangeTrees == [i \in DOMAIN input.arguments |-> input.arguments[i].tree]

RangeTree ==
    SubscriptExpression(VariableExpression(<<"x">>),
        IF Len(input.arguments) = 1 THEN RangeTrees[1] ELSE ArrayExpression(RangeTrees))

\* C16: in a subscript, ..b gives Unary RightBoundedRange(b), a..b gives
\* Binary BoundedRange(a, b) and a.. gives Unary LeftBoundedRange(a), the
\* last being chosen exactly when the token after .. cannot start a term;
\* each form may be one of several comma-separated arguments.
C16_RangeForms ==
    phase = "parsed" => result.ok /\ result.node = RangeTree

\* Some a..b has an upper bound that begins with the {{ of a switch.
UpperIsSwitch ==
    \E i \in DOMAIN input.arguments :
        /\ input.arguments[i].form = "both"
        /\ input.arguments[i].upper[1] = "{"
        /\ input.arguments[i].upper[2] = "{"

\* The same where no a..b has a switch for its upper bound.
RangeFormsBeforeSimpleTerm ==
    UpperIsSwitch \/ C16_RangeForms

(***************************************************************************)
(* Characters no token starts with, after whitespace, comments and tokens. *)
(***************************************************************************)
MaxPreceding == 2

\* What may stand before the character: whitespace, a comment, tokens.
PrecedingPieces ==
    { <<" ">>, <<"\n">>, <<"/","/","c","\n">>, <<"x">>, <<"1">>, <<"1",".","5">>,
      <<"+">>, <<"\"","s","\"">>, <<")">> }

StrayCharacters == { "$", "#", "@", "?", "." }

\* What may follow it: no '.' and no digit.
FollowingPieces == { <<>>, <<" ">>, <<"x">> }

\* The text from p on is tokenized up to its end without an exception.
RECURSIVE Tokenizes(_, _)
Tokenizes(s, p) ==
    LET t == emitToken(s, p)
    IN  t.type = "Eof" \/ (t.type # "Error" /\ Tokenizes(s, t.next))

PrecedingTexts ==
    { t \in { Join(pieces, <<>>) : pieces \in SeqsOf(PrecedingPieces, 0, MaxPreceding) } :
        Tokenizes(t, 1) }

StrayInputs ==
    { [text |-> before \o <<c>> \o after, at |-> Len(before) + 1] :
        before \in PrecedingTexts, c \in StrayCharacters, after \in FollowingPieces }

InitStray == InitWith(StrayInputs)

SpecStray == InitStray /\ [][Next]_vars

\* C17: a character that cannot start a token makes the tokenizer raise a
\* lexical error that names that character and carries the line and the
\* column of that character, whatever whitespace, comments or tokens
\* precede it.
C17_ErrorAtCharacter ==
    phase = "lexed"
    => LET t == toks[Len(toks)]
       IN  /\ t.type = "Error"
           /\ t.b = input.at
           /\ line(text, t.loc) = line(text, input.at)
           /\ column(text, t.loc) = column(text, input.at)

\* The same where no digit stands right before the character.
ErrorAtCharacterNotAfterDigit ==
    (input.at > 1 /\ isDigit(text[input.at - 1])) \/ C17_ErrorAtCharacter

(***************************************************************************)
(* TagManager: the smart tags registered with a document.  A smart tag is  *)
(* its name and the rest of it (attributes, matcher), which takes no part  *)
(* in the registration.                                                    *)
(***************************************************************************)
MaxTags == 3

TagNames == { "Trigger", "Clip", "Detail", "Hint" }

SmartTags == [name : TagNames, matcher : {"ContentFlags", "SurfaceParm"}]

\* TagManager::isRegisteredSmartTag(name)
isRegisteredSmartTag(tags, name) == \E i \in DOMAIN tags : tags[i].name = name

\* TagManager::smartTag(name): the tag of that name, or std::logic_error.
smartTag(tags, name) ==
    IF ~isRegisteredSmartTag(tags, name)
    THEN [threw |-> TRUE, returned |-> <<>>]
    ELSE [threw |-> FALSE,
          returned |-> <<tags[CHOOSE i \in DOMAIN tags : tags[i].name = name]>>]

\* A registration that does not look at the tags already registered.
registerSmartTagUnchecked(tags, tag) ==
    [threw |-> FALSE, tags |-> Append(tags, tag)]

\* TagManager::registerSmartTag(tag): std::logic_error when a tag of that
\* name is registered already.
registerSmartTag(tags, tag) ==
    IF isRegisteredSmartTag(tags, tag.name)
    THEN [threw |-> TRUE, tags |-> tags]
    ELSE [threw |-> FALSE, tags |-> Append(tags, tag)]

Call(op, name, threw, returned) ==
    [op |-> op, name |-> name, threw |-> threw, returned |-> returned]

CallRegisterSmartTag ==
    \E tag \in SmartTags :
        LET outcome == registerSmartTag(m_smartTags, tag)
        IN  /\ outcome.threw \/ Len(m_smartTags) < MaxTags
            /\ m_smartTags' = outcome.tags
            /\ m_currentTagTypeIndex' =
                   IF outcome.threw THEN m_currentTagTypeIndex
                   ELSE m_currentTagTypeIndex + 1
            /\ registered' = IF outcome.threw THEN registered
                             ELSE registered \cup {tag.name}
            /\ called' = Call("registerSmartTag", tag.name, outcome.threw, <<>>)
            /\ UNCHANGED <<elVars, docVars, entityVars, sphere, prefVars>>

CallClearSmartTags ==
    /\ m_smartTags' = <<>>
    /\ m_currentTagTypeIndex' = 0
    /\ registered' = {}
    /\ called' = Call("clearSmartTags", "", FALSE, <<>>)
    /\ UNCHANGED <<elVars, docVars, entityVars, sphere, prefVars>>

CallIsRegisteredSmartTag ==
    \E name \in TagNames :
        /\ called' = Call("isRegisteredSmartTag", name, FALSE,
                          <<isRegisteredSmartTag(m_smartTags, name)>>)
        /\ UNCHANGED <<m_smartTags, m_currentTagTypeIndex, registered>>
        /\ UNCHANGED <<elVars, docVars, entityVars, sphere, prefVars>>

CallSmartTag ==
    \E name \in TagNames :
        LET outcome == smartTag(m_smartTags, name)
        IN  /\ called' = Call("smartTag", name, outcome.threw, outcome.returned)
            /\ UNCHANGED <<m_smartTags, m_currentTagTypeIndex, registered>>
            /\ UNCHANGED <<elVars, docVars, entityVars, sphere, prefVars>>

NextTags ==
    CallRegisterSmartTag \/ CallClearSmartTags \/ CallIsRegisteredSmartTag \/ CallSmartTag

NoText == [text |-> <<>>]

InitTags == InitWith({NoText})

SpecTags == InitTags /\ [][NextTags]_vars

NoTwoOfOneName ==
    \A i, j \in DOMAIN m_smartTags :
        m_smartTags[i].name = m_smartTags[j].name => i = j

\* What the last call returned or threw fits the tags it has left.
CallFits ==
    /\ called.op = "isRegisteredSmartTag"
       => called.returned = <<called.name \in registered>>
    /\ called.op = "smartTag"
       => (called.threw <=> ~isRegisteredSmartTag(m_smartTags, called.name))
    /\ (called.op = "smartTag" /\ ~called.threw)
       => called.returned[1].name = called.name

\* A registerSmartTag of a name registered before throws and changes nothing.
RegisteredTwice ==
    (called'.op = "registerSmartTag" /\ called'.name \in registered)
    => called'.threw /\ m_smartTags' = m_smartTags /\ registered' = registered

UnarySigns ==
    { [text |-> <<"-">>, op |-> "Minus"], [text |-> <<"+">>, op |-> "Plus"],
      [text |-> <<"!">>, op |-> "LogicalNegation"],
      [text |-> <<"~">>, op |-> "BitwiseNegation"] }

\* The operands as written, with the tree each denotes.
SignedOperands ==
    { [text |-> <<"a">>, tree |-> VariableExpression(<<"a">>)],
      [text |-> <<"1">>, tree |-> Number(1)],
      [text |-> <<"a","[","0","]">>,
       tree |-> SubscriptExpression(VariableExpression(<<"a">>), Number(0))],
      [text |-> <<"(","a",")">>, tree |-> UnaryExpression("Group", VariableExpression(<<"a">>))],
      [text |-> <<"(","1",")">>, tree |-> UnaryExpression("Group", Number(1))],
      [text |-> <<"{","{"," ","1"," ","}","}">>, tree |-> SwitchExpression(<<Number(1)>>)] }

FollowingOperators ==
    { [text |-> <<"+">>, op |-> "Addition"],
      [text |-> <<"*">>, op |-> "Multiplication"],
      [text |-> <<"&","&">>, op |-> "LogicalAnd"],
      [text |-> <<"=","=">>, op |-> "Equal"],
      [text |-> <<"<">>, op |-> "Less"] }

RightOperands ==
    { [text |-> <<"b">>, tree |-> VariableExpression(<<"b">>)],
      [text |-> <<"2">>, tree |-> Number(2)] }

\* u a op b
SignedInputs ==
    { [text |-> u.text \o a.text \o Space \o o.text \o Space \o b.text,
       grouped |-> a.text[1] = "(",
       tree |-> BinaryExpression(o.op, UnaryExpression(u.op, a.tree), b.tree)] :
        u \in UnarySigns, a \in SignedOperands, o \in FollowingOperators,
        b \in RightOperands }

InitSigned == InitWith(SignedInputs)

SpecSigned == InitSigned /\ [][Next]_vars

\* C19: a unary operator applies only to the simple term (with its
\* subscripts) or switch right after it, and a binary operator after that
\* operand applies to the unary node: -a op b and -(a) op b parse to
\* Binary(op, Unary(Minus, ...), b), and so for +, ! and ~.
C19_UnaryBindsTighter ==
    phase = "parsed" => result.ok /\ result.node = input.tree

\* The same for the operands without parentheses.
UnaryBindsTighterUngrouped ==
    input.grouped \/ C19_UnaryBindsTighter

(***************************************************************************)
(* Subscripts without an argument: t[].                                    *)
(***************************************************************************)
EmptiedTargets ==
    { <<"a">>, <<"b">>, <<"\"","s","\"">>, <<"[","1",","," ","2","]">>,
      <<"{","k",":"," ","1","}">>, <<"a","[","0","]">> }

EmptyBrackets == { <<"[","]">>, <<"[", " ", "]">> }

EmptiedContexts == { "alone", "left", "right", "element", "chained", "negated" }

InContext(context, t) ==
    CASE context = "alone" -> t
      [] context = "left" -> t \o <<" ","+"," ","1">>
      [] context = "right" -> <<"1"," ","+"," ">> \o t
      [] context = "element" -> <<"[">> \o t \o <<"]">>
      [] context = "chained" -> t \o <<"[","0","]">>
      [] context = "negated" -> <<"!">> \o t

EmptySubscriptInputs ==
    { [text |-> InContext(context, t \o brackets), context |-> context] :
        t \in EmptiedTargets, brackets \in EmptyBrackets, context \in EmptiedContexts }

InitEmptySubscript == InitWith(EmptySubscriptInputs)

SpecEmptySubscript == InitEmptySubscript /\ [][Next]_vars

\* C20: a subscript requires at least one argument: a[] is rejected with a
\* parse error in Strict and in Lenient mode and yields no Subscript node.
C20_EmptySubscriptRejected ==
    phase = "parsed" => ~result.ok /\ result.err = "ParseError"

(***************************************************************************)
(* Digits and what follows them.                                           *)
(***************************************************************************)
DigitRuns == { <<"0">>, <<"1">>, <<"1","2">>, <<"1",".","5">> }

\* What follows the digits: the delimiters of NumberDelim, the range sign,
\* and lexemes that begin with no delimiter.
Followers ==
    { <<c>> : c \in {"(", ")", "{", "}", "[", "]", ",", ":", "+", "-", "*", "/", "%"} }
    \cup { <<" ">>, <<"\t">>, <<"\n">>, <<".",".">> }
    \cup { <<"<">>, <<">">>, <<"<","=">>, <<"=","=">>, <<"!","=">>, <<"&","&">>,
           <<"&">>, <<"|","|">>, <<"|">>, <<"^">>, <<"~">>, <<"!">>, <<"a">>, <<"_">> }

\* digits, follower, then 2; spaced: with a space after the digits.
FollowedInputs ==
    { [text |-> d \o (IF spaced THEN Space ELSE <<>>) \o f \o <<"2">>,
       digits |-> d, follower |-> f, spaced |-> spaced] :
        d \in DigitRuns, f \in Followers, spaced \in BOOLEAN }

InitFollowed == InitWith(FollowedInputs)

SpecFollowed == InitFollowed /\ [][Next]_vars

\* The first token is the Number made of the digits.
DigitsEmitted ==
    /\ toks[1].type = "Number"
    /\ data(text, toks[1]) = input.digits

NoError == \A i \in DOMAIN toks : toks[i].type # "Error"

\* The characters after which a number ends.
Delimiting ==
    {" ", "\t", "\n", "\r", "(", ")", "{", "}", "[", "]", ",", ":", "+", "-", "*", "/", "%"}

\* C21: a Number token is emitted only when the digits are followed by
\* whitespace, by one of ( ) { } [ ] , : + - * / %, by the end of the input
\* or, for the integer scan, by '.'; digits directly followed by another
\* character (as in 1<2 or 1&& y) give no Number token but an 'Unexpected
\* character' error, while the same text with a space after the number is
\* tokenized.
C21_NumberDelimiters ==
    /\ \A i \in DOMAIN toks :
          toks[i].type = "Number"
          => \/ eof(text, toks[i].e)
             \/ text[toks[i].e] \in Delimiting
             \/ /\ text[toks[i].e] = "."
                /\ \A j \in toks[i].b .. toks[i].e - 1 : text[j] # "."
    /\ (phase = "lexed" /\ ~input.spaced /\ input.follower[1] \notin Delimiting \cup {"."})
       => /\ toks[Len(toks)].type = "Error"
          /\ toks[Len(toks)].b <= Len(input.digits)
          /\ \A i \in DOMAIN toks :
                toks[i].type = "Number" => toks[i].e <= Len(input.digits)
    /\ (phase = "lexed" /\ (input.spaced \/ input.follower[1] \in Delimiting))
       => DigitsEmitted /\ NoError

\* 1<2 has been turned down.
C21_Witness ==
    /\ phase = "lexed"
    /\ text = <<"1","<","2">>
    /\ toks = <<LexError(1)>>

(***************************************************************************)
(* Any text: every sequence of a few characters, and longer texts in which *)
(* each loop of the tokenizer and the parser goes round several times.     *)
(***************************************************************************)
MaxText == 3

TextCharacters ==
    { "1", "a", "[", "]", "{", "}", "(", ")", ",", "-", ".", "/", "\n", " ", "\"" }

\* compound chain, subscript chain, array, map, switch, subscript
\* arguments, whitespace and comments.
LoopTexts ==
    { <<"1"," ","-"," ","a"," ","-"," ","1"," ","-"," ","a">>,
      <<"a","[","1","]","[","1","]","[","1","]">>,
      <<"[","1",","," ","a",","," ","1","]">>,
      <<"{","a",":"," ","1",","," ","b",":"," ","1",","," ","c",":"," ","1","}">>,
      <<"{","{"," ","a",","," ","1",","," ","a"," ","}","}">>,
      <<"a","[","1",","," ","1",","," ","1",".",".","]">>,
      <<"/","/","a","\n"," "," ","/","/","\n","\n","1"," ","/","/","a">> }

AnyInputs ==
    { [text |-> t] : t \in SeqsOf(TextCharacters, 0, MaxText) \cup LoopTexts }

InitAny == InitWith(AnyInputs)

SpecAny == InitAny /\ [][Next]_vars

\* The tokenizer and the parser run on until they are done.
SpecAnyFair == InitAny /\ [][Next]_vars /\ WF_vars(Next)

\* The cursor is within the text or right behind it, and the tokens
\* emitted lie one behind the other.
CursorWithinText ==
    /\ pos \in 1 .. Len(text) + 1
    /\ Len(toks) <= Len(text) + 1
    /\ \A i \in DOMAIN toks :
          /\ toks[i].next \in 1 .. Len(text) + 1
          /\ i > 1 => toks[i - 1].next <= toks[i].b
          /\ toks[i].type \notin {"Eof", "Error"} => toks[i].b < toks[i].next
    /\ phase = "parsed"
       => IF result.ok THEN result.pos \in 2 .. Len(text) + 1
          ELSE /\ result.err \in {"LexError", "ParseError"}
               /\ result.at \in 1 .. Len(text) + 1

\* A token moves the cursor on, or it is the last one.
TokenConsumes == toks' # toks => (pos' > pos \/ phase' = "lexed")

\* C22: parsing terminates on every finite input: each pass of the
\* tokenizer's loop and of the parser's loops consumes a character or a
\* token or raises, so parseStrict and parseLenient return a tree or raise
\* without going beyond the tokens of the input.
C22_Terminates ==
    /\ []CursorWithinText
    /\ [][TokenConsumes]_vars
    /\ <>(phase \in {"lexed", "parsed", "evaluated"})

\* A chain of three subscripts has been parsed to its end.
C22_Witness ==
    /\ phase = "parsed"
    /\ text = <<"a","[","1","]","[","1","]","[","1","]">>
    /\ result.ok
    /\ result.pos = Len(text) + 1

\* The cursors a tokenizer passes when nextToken is called again and again
\* from cursor p.
RECURSIVE Cursors(_, _)
Cursors(s, p) ==
    LET t == emitToken(s, p)
    IN  IF t.type \in {"Eof", "Error"} THEN {p} ELSE {p} \cup Cursors(s, t.next)

IncreasingOffsets ==
    \A i, j \in DOMAIN toks : i < j => toks[i].b < toks[j].b

\* The parse has ended at a cursor of the token stream: behind the last
\* token it took, or at the token it turned down.
ParsedOnStream ==
    phase = "parsed"
    => IF result.ok THEN result.pos \in Cursors(text, 1)
       ELSE \E c \in Cursors(text, 1) : emitToken(text, c).loc = result.at

\* nextToken yields the token a peek before it has shown.
NextIsPeeked == toks' # toks => toks'[Len(toks')] = peekToken(text, pos)

LastValues ==
    { [text |-> <<"1">>, map |-> FALSE, tree |-> Number(1)],
      [text |-> <<"x">>, map |-> FALSE, tree |-> VariableExpression(<<"x">>)],
      [text |-> <<"[","1","]">>, map |-> FALSE, tree |-> ArrayExpression(<<Number(1)>>)],
      [text |-> <<"{","{","1","}","}">>, map |-> FALSE,
       tree |-> SwitchExpression(<<Number(1)>>)],
      [text |-> <<"{","b",":","1","}">>, map |-> TRUE,
       tree |-> MapExpression(<<"b">> :> Number(1))],
      [text |-> <<"{","b",":","1"," ","}">>, map |-> TRUE,
       tree |-> MapExpression(<<"b">> :> Number(1))],
      [text |-> <<"{","}">>, map |-> TRUE, tree |-> MapExpression(<<>>)],
      [text |-> <<"{","b",":","{","c",":","1","}"," ","}">>, map |-> TRUE,
       tree |-> MapExpression(<<"b">> :> MapExpression(<<"c">> :> Number(1)))] }

\* What stands before the last value: the key alone, or an entry and a key,
\* with or without whitespace.
BeforeLast ==
    { [text |-> <<"{","a",":">>, first |-> FALSE],
      [text |-> <<"{"," ","a",":"," ">>, first |-> FALSE],
      [text |-> <<"{","k",":","2",",","a",":">>, first |-> TRUE],
      [text |-> <<"{","k",":","2",","," ","a",":"," ">>, first |-> TRUE] }

BraceInputs ==
    { [text |-> before.text \o v.text \o gap \o <<"}">>,
       at |-> Len(before.text) + Len(v.text),
       adjacent |-> (v.map /\ gap = <<>>),
       tree |-> MapExpression(
                    IF before.first
                    THEN (<<"k">> :> Number(2)) @@ (<<"a">> :> v.tree)
                    ELSE <<"a">> :> v.tree)] :
        before \in BeforeLast, v \in LastValues, gap \in {<<>>, Space, <<"\n">>} }

InitBrace == InitWith(BraceInputs)

SpecBrace == InitBrace /\ [][Next]_vars

\* C24: two adjacent closing braces are one DoubleCBrace token and two
\* adjacent opening braces one DoubleOBrace token, in every context; so a
\* map whose last value is a map with nothing between the two closing
\* braces, as {a:{b:1}}, is a parse error at the braces, and {a:{b:1} }
\* parses to a Map holding a Map.
C24_AdjacentBraces ==
    /\ \A i \in DOMAIN toks :
          /\ toks[i].type = "CBrace" => curChar(text, toks[i].e) # "}"
          /\ toks[i].type = "OBrace" => curChar(text, toks[i].e) # "{"
    /\ (phase = "lexed" /\ input.adjacent)
       => \E i \in DOMAIN toks :
             toks[i].type = "DoubleCBrace" /\ toks[i].b = input.at
    /\ phase = "lexed"
       => \A p \in 1 .. Len(text) - 1 :
             /\ (text[p] = "{" /\ text[p + 1] = "{")
                => \E i \in DOMAIN toks : toks[i].type = "DoubleOBrace" /\ toks[i].b = p
             /\ (text[p] = "}" /\ text[p + 1] = "}" /\ (p = 1 \/ text[p - 1] # "}"))
                => \E i \in DOMAIN toks : toks[i].type = "DoubleCBrace" /\ toks[i].b = p
    /\ (phase = "parsed" /\ input.adjacent)
       => ~result.ok /\ result.err = "ParseError" /\ result.at = input.at
    /\ (phase = "parsed" /\ ~input.adjacent)
       => result.ok /\ result.node = input.tree

\* {a:{b:1}} has been turned down at its closing braces.
C24_Witness ==
    /\ phase = "parsed"
    /\ m_mode = "Lenient"
    /\ text = <<"{","a",":","{","b",":","1","}","}">>
    /\ ~result.ok
    /\ result.at = 8

(***************************************************************************)
(* The Case operator in a chain: c -> r op s as a switch element.          *)
(***************************************************************************)
MaxCaseOperators == 2

CaseOperands ==
    { [text |-> <<"t","r","u","e">>, tree |-> LiteralExpression(BooleanValue(TRUE))],
      [text |-> <<"f","a","l","s","e">>, tree |-> LiteralExpression(BooleanValue(FALSE))],
      [text |-> <<"1">>, tree |-> Number(1)],
      [text |-> <<"0">>, tree |-> Number(0)] }

CaseOperators ==
    { [text |-> <<"-",">">>, op |-> "Case"],
      [text |-> <<"+">>, op |-> "Addition"],
      [text |-> <<"=","=">>, op |-> "Equal"] }

\* o1 op1 o2 ... opn o(n+1) as written.
RECURSIVE CaseChainText(_, _)
CaseChainText(operands, operators) ==
    IF operators = <<>> THEN operands[1].text
    ELSE operands[1].text \o Space \o operators[1].text \o Space
         \o CaseChainText(Tail(operands), Tail(operators))

\* The flat chain of the first n operators, nested to the left.
RECURSIVE CaseChainTree(_, _, _)
CaseChainTree(operands, operators, n) ==
    IF n = 0 THEN operands[1].tree
    ELSE BinaryExpression(operators[n].op,
                          CaseChainTree(operands, operators, n - 1),
                          operands[n + 1].tree)

\* {{ element, 9 }}: the element, then a default.
CaseInputs ==
    UNION { { [text |-> <<"{","{"," ">> \o CaseChainText(operands, operators)
                        \o <<","," ","9"," ","}","}">>,
               operands |-> operands, operators |-> operators] :
                operands \in [1 .. n + 1 -> CaseOperands],
                operators \in [1 .. n -> CaseOperators] } :
            n \in 1 .. MaxCaseOperators }

InitCase == InitWith(CaseInputs)

SpecCase == InitCase /\ [][Next]_vars

CaseCount == Len(input.operators)

ElementTree == CaseChainTree(input.operands, input.operators, CaseCount)

\* The element is a conditional branch: its last operator is ->.
Conditional == input.operators[CaseCount].op = "Case"

\* What the switch is to yield: the element itself when it is no
\* conditional branch; else the operand after the last -> when all that
\* stands before it is truthy, and the default 9 when it is falsy.
CaseYields ==
    IF ~Conditional THEN evaluate(ElementTree, variableStore)
    ELSE LET cond == evaluate(CaseChainTree(input.operands, input.operators,
                                            CaseCount - 1), variableStore)
         IN  IF IsError(cond) THEN cond
             ELSE IF IsError(truthy(cond)) THEN truthy(cond)
             ELSE IF truthy(cond)[2]
             THEN evaluate(input.operands[CaseCount + 1].tree, variableStore)
             ELSE Integer(9)

\* C25: -> binds like every other binary operator of the flat chain:
\* c -> r op s parses to Binary(op, Case(c, r), s), whose top node is no
\* Case, so the switch takes the element as an unconditional default; only
\* an element whose last binary operator is -> is a conditional branch,
\* and all that stands left of that -> is its condition.
C25_CaseInChain ==
    /\ phase = "parsed"
       => /\ result.ok
          /\ result.node = SwitchExpression(<<ElementTree, Number(9)>>)
          /\ (ElementTree[2] = "Case") <=> Conditional
    /\ phase = "evaluated" => value = CaseYields

\* {{ false -> 1 + 1, 9 }} has been evaluated as its first element, the
\* default 9 not being reached.
C25_Witness ==
    /\ phase = "evaluated"
    /\ text = <<"{","{"," ","f","a","l","s","e"," ","-",">"," ","1"," ","+"," ","1",
                ","," ","9"," ","}","}">>
    /\ value # Integer(9)

\* C26: Strict mode only adds the end-of-input check to Lenient mode: when
\* parseStrict returns a tree parseLenient returns the same tree, when
\* parseLenient raises parseStrict raises at the same or an earlier
\* position, and the two never build different trees for one text.
C26_StrictRefinesLenient ==
    phase = "parsed"
    => LET strict == parseStrict(text)
           lenient == parseLenient(text)
       IN  /\ result = IF m_mode = "Strict" THEN strict ELSE lenient
           /\ strict.ok => lenient.ok /\ lenient.node = strict.node
           /\ ~lenient.ok => ~strict.ok /\ strict.at <= lenient.at
           /\ (~strict.ok /\ lenient.ok)
              => ~hasType(peekToken(text, lenient.pos), {"Eof"})

\* Strict mode has turned down a text of which Lenient mode returns a tree.
C26_Witness ==
    /\ phase = "parsed"
    /\ m_mode = "Strict"
    /\ ~result.ok
    /\ parseLenient(text).ok

(***************************************************************************)
(* MapDocument: the modification count (MapDocument.cpp).  Executing a     *)
(* command calls incModificationCount and undoing it decModificationCount; *)
(* the document is created, opened and saved in between.                   *)
(***************************************************************************)
\* The bits of the size_t that counts the modifications.
SizeBits == 3

SizeMax == 2 ^ SizeBits - 1

\* The commands that can be waiting for their undo at one time.
MaxCommands == 4

\* setDocumentPath(IO::Path("unnamed.map")) of newDocument.
UnnamedPath == "unnamed.map"

\* The paths a document is opened from and saved to.
Paths == {"a.map", "b.map", "c.map"}

\* MapDocument::modified
modified == m_modificationCount > 0

\* The rest of the state does not change.
BesidesDocument == <<elVars, tagVars, entityVars, sphere, prefVars>>

\* MapDocument::clearModificationCount
clearModificationCount ==
    m_modificationCount' = 0

\* MapDocument::setDocumentPath
setDocumentPath(path) ==
    m_path' = path

\* MapDocument::incModificationCount, called when a command is executed.
IncModificationCount ==
    /\ ~aborted
    /\ undoable < MaxCommands
    /\ m_modificationCount' = (m_modificationCount + 1) % (2 ^ SizeBits)
    /\ undoable' = undoable + 1
    /\ UNCHANGED <<m_path, aborted>>
    /\ UNCHANGED BesidesDocument

\* MapDocument::decModificationCount, called when an executed command is
\* undone.  With the count at zero the assert stops a build that has asserts,
\* and a build without them decrements the size_t past zero.
DecModificationCount ==
    /\ ~aborted
    /\ undoable > 0
    /\ undoable' = undoable - 1
    /\ IF m_modificationCount > 0
       THEN /\ m_modificationCount' = m_modificationCount - 1
            /\ UNCHANGED aborted
       ELSE \/ /\ aborted' = TRUE
               /\ UNCHANGED m_modificationCount
            \/ /\ m_modificationCount' = (m_modificationCount - 1) % (2 ^ SizeBits)
               /\ UNCHANGED aborted
    /\ UNCHANGED m_path
    /\ UNCHANGED BesidesDocument

\* MapDocument::newDocument
NewDocument ==
    /\ ~aborted
    /\ setDocumentPath(UnnamedPath)
    /\ clearModificationCount
    /\ UNCHANGED <<undoable, aborted>>
    /\ UNCHANGED BesidesDocument

\* MapDocument::openDocument
OpenDocument ==
    /\ ~aborted
    /\ \E path \in Paths : setDocumentPath(path)
    /\ clearModificationCount
    /\ UNCHANGED <<undoable, aborted>>
    /\ UNCHANGED BesidesDocument

\* MapDocument::doSaveDocument
doSaveDocument(path) ==
    /\ clearModificationCount
    /\ setDocumentPath(path)

\* MapDocument::saveDocument, of a document that has a path.
SaveDocument ==
    /\ ~aborted
    /\ m_path # EmptyPath
    /\ doSaveDocument(m_path)
    /\ UNCHANGED <<undoable, aborted>>
    /\ UNCHANGED BesidesDocument

\* MapDocument::saveDocumentAs
SaveDocumentAs ==
    /\ ~aborted
    /\ \E path \in Paths : doSaveDocument(path)
    /\ UNCHANGED <<undoable, aborted>>
    /\ UNCHANGED BesidesDocument

NextDocument ==
    \/ IncModificationCount
    \/ DecModificationCount
    \/ NewDocument
    \/ OpenDocument
    \/ SaveDocument
    \/ SaveDocumentAs

InitModifications == InitWith({NoText})

SpecModifications == InitModifications /\ [][NextDocument]_vars

\* C27: every decModificationCount that undoes a command executed earlier
\* and not yet undone finds m_modificationCount > 0 and leaves the count one
\* lower, whatever was saved, created or opened in between.
C27_UndoFindsCountPositive ==
    [][undoable' < undoable
       => /\ m_modificationCount > 0
          /\ m_modificationCount' = m_modificationCount - 1
          /\ ~aborted']_vars

(***************************************************************************)
(* MapDocument::entityPropertyDidChange (MapDocument.cpp): what the        *)
(* document updates when a property of an entity was set or renamed.       *)
(***************************************************************************)
MaxEntities == 2

Entities == 1 .. MaxEntities

\* Model::PropertyKeys
Classname == "classname"

Targetname == "targetname"

Target == "target"

Killtarget == "killtarget"

PropertyKeys == {Classname, Targetname, Target, Killtarget}

\* The values of a property; an entity without the property holds NoValue.
NoValue == ""

PropertyValues == {"a", "b"}

\* The maps a change is made to: the first entity is named and classified,
\* the last one targets and kill-targets.
Maps ==
    { [e \in Entities |->
          IF e = 1
          THEN [k \in PropertyKeys |->
                    IF k = Classname THEN c ELSE IF k = Targetname THEN n
                    ELSE NoValue]
          ELSE [k \in PropertyKeys |->
                    IF k = Target THEN t ELSE IF k = Killtarget THEN d
                    ELSE NoValue]] :
      c \in PropertyValues \cup {NoValue}, n \in PropertyValues \cup {NoValue},
      t \in PropertyValues \cup {NoValue}, d \in PropertyValues \cup {NoValue} }

\* Map::findEntitiesWithNumberedProperty
findEntitiesWithNumberedProperty(map, key, val) ==
    {e \in DOMAIN map : val # NoValue /\ map[e][key] = val}

\* MapDocument::entityPropertyDidChange: the entities whose definition and
\* model were set anew and the entities handed to IssueManager::updateObjects.
entityPropertyDidChange(map, entity, oldKey, oldValue, newKey, newValue) ==
    IF oldKey = Targetname \/ newKey = Targetname
    THEN [definition |-> {},
          model |-> {},
          issues |-> findEntitiesWithNumberedProperty(map, Target, oldValue)
                     \cup findEntitiesWithNumberedProperty(map, Killtarget, oldValue)
                     \cup findEntitiesWithNumberedProperty(map, Target, newValue)
                     \cup findEntitiesWithNumberedProperty(map, Killtarget, newValue)]
    ELSE IF oldKey = Classname \/ newKey = Classname
    THEN [definition |-> {entity}, model |-> {entity}, issues |-> {}]
    ELSE NoUpdates

PropertyChange(entity, oldKey, oldValue, newKey, newValue) ==
    [entity |-> entity, oldKey |-> oldKey, oldValue |-> oldValue,
     newKey |-> newKey, newValue |-> newValue]

BesidesEntities == <<elVars, tagVars, docVars, sphere, prefVars>>

\* A property of an entity is given a value, and the document is told.
SetProperty ==
    /\ notified = NoChange
    /\ \E entity \in DOMAIN m_map, key \in PropertyKeys, newValue \in PropertyValues :
          LET oldValue == m_map[entity][key]
          IN  /\ newValue # oldValue
              /\ m_map' = [m_map EXCEPT ![entity][key] = newValue]
              /\ notified' = PropertyChange(entity, key, oldValue, key, newValue)
              /\ updated' = entityPropertyDidChange(m_map', entity, key, oldValue,
                                                    key, newValue)
    /\ UNCHANGED BesidesEntities

\* A property of an entity is given another key, and the document is told.
RenameProperty ==
    /\ notified = NoChange
    /\ \E entity \in DOMAIN m_map, oldKey \in PropertyKeys, newKey \in PropertyKeys :
          LET val == m_map[entity][oldKey]
          IN  /\ newKey # oldKey
              /\ val # NoValue
              /\ m_map' = [m_map EXCEPT ![entity][oldKey] = NoValue,
                                        ![entity][newKey] = val]
              /\ notified' = PropertyChange(entity, oldKey, val, newKey, val)
              /\ updated' = entityPropertyDidChange(m_map', entity, oldKey, val,
                                                    newKey, val)
    /\ UNCHANGED BesidesEntities

NextEntities == SetProperty \/ RenameProperty

InitProperties ==
    /\ InitEL({NoText})
    /\ InitTagManager
    /\ InitDocument
    /\ InitEntities(Maps)
    /\ sphere = NoSphere
    /\ InitPreferencesWindowController

SpecProperties == InitProperties /\ [][NextEntities]_vars

\* C28: after a change whose old or new key is classname the definition and
\* the model of the entity have been set anew, and after a change whose old
\* or new key is targetname the issues of every entity that targets or
\* kill-targets the old or the new value have been updated.
C28_ChangeUpdates ==
    /\ Classname \in {notified.oldKey, notified.newKey}
       => /\ notified.entity \in updated.definition
          /\ notified.entity \in updated.model
    /\ Targetname \in {notified.oldKey, notified.newKey}
       => \A e \in DOMAIN m_map :
            (\E k \in {Target, Killtarget} :
                /\ m_map[e][k] # NoValue
                /\ m_map[e][k] \in {notified.oldValue, notified.newValue})
            => e \in updated.issues

(***************************************************************************)
(* BrushBuilder::createUVSphere: the three loops that create the faces.    *)
(* numSides, numRings and the loop counters are size_t.                    *)
(***************************************************************************)
MaxSides == 3

MaxRings == 3

\* createUVSphere(bounds, numSides, numRings, ...) is entered: no face yet,
\* the top cone loop is about to test i = 0.
EnterSphere(numSides, numRings) ==
    [numSides |-> numSides, numRings |-> numRings, loop |-> "top", i |-> 0, j |-> 0,
     top |-> 0, rings |-> 0, bottom |-> 0]

Spheres == {EnterSphere(numSides, numRings) :
                numSides \in 0 .. MaxSides, numRings \in 0 .. MaxRings}

\* numRings - 1, computed in size_t.
RingGaps(numRings) ==
    (numRings - 1) % (2 ^ SizeBits)

BesidesSphere == <<elVars, tagVars, docVars, entityVars, prefVars>>

\* for (size_t i = 0; i < numSides; ++i) faces.push_back(...): the top cone.
TopCone ==
    /\ sphere.loop = "top"
    /\ sphere' = IF sphere.i < sphere.numSides
                 THEN [sphere EXCEPT !.top = @ + 1, !.i = (@ + 1) % (2 ^ SizeBits)]
                 ELSE [sphere EXCEPT !.loop = "rings", !.i = 0]
    /\ UNCHANGED BesidesSphere

\* for (size_t i = 0; i < numRings - 1; ++i): the test of the quad ring loop
\* and, when it passes, makeRing for the current ring.
QuadRings ==
    /\ sphere.loop = "rings"
    /\ sphere' = IF sphere.i < RingGaps(sphere.numRings)
                 THEN [sphere EXCEPT !.loop = "ring", !.j = 0]
                 ELSE [sphere EXCEPT !.loop = "bottom", !.i = 0]
    /\ UNCHANGED BesidesSphere

\* for (size_t j = 0; j < numSides; ++j) faces.push_back(...): the faces of
\* one ring; after them previousRing = currentRing and ++i.
QuadRing ==
    /\ sphere.loop = "ring"
    /\ sphere' = IF sphere.j < sphere.numSides
                 THEN [sphere EXCEPT !.rings = @ + 1, !.j = (@ + 1) % (2 ^ SizeBits)]
                 ELSE [sphere EXCEPT !.loop = "rings", !.i = (@ + 1) % (2 ^ SizeBits)]
    /\ UNCHANGED BesidesSphere

\* for (size_t i = 0; i < numSides; ++i) faces.push_back(...): the bottom cone.
BottomCone ==
    /\ sphere.loop = "bottom"
    /\ sphere' = IF sphere.i < sphere.numSides
                 THEN [sphere EXCEPT !.bottom = @ + 1, !.i = (@ + 1) % (2 ^ SizeBits)]
                 ELSE [sphere EXCEPT !.loop = "done"]
    /\ UNCHANGED BesidesSphere

NextSphere == TopCone \/ QuadRings \/ QuadRing \/ BottomCone

InitSphere ==
    /\ InitEL({NoText})
    /\ InitTagManager
    /\ InitDocument
    /\ InitEntities({NoEntities})
    /\ sphere \in Spheres
    /\ InitPreferencesWindowController

SpecSphere == InitSphere /\ [][NextSphere]_vars

\* C29: createUVSphere makes numSides faces for the top cone, numSides for
\* the bottom cone and numSides for each of the numRings - 1 ring gaps, that
\* is numSides * (numRings + 1) faces for numRings >= 1; for numRings = 0
\* the body of the quad ring loop is never entered.
C29_FaceCount ==
    /\ sphere.numRings = 0 => sphere.loop # "ring" /\ sphere.rings = 0
    /\ sphere.loop = "done"
       => /\ sphere.top = sphere.numSides
          /\ sphere.bottom = sphere.numSides
          /\ sphere.numRings >= 1
             => /\ sphere.rings = sphere.numSides * (sphere.numRings - 1)
                /\ sphere.top + sphere.rings + sphere.bottom
                     = sphere.numSides * (sphere.numRings + 1)

(***************************************************************************)
(* PreferencesWindowController (src/unnamed/part_000): +sharedInstance and *)
(* +allocWithZone: called from several threads.  A thread takes one step   *)
(* at a time; every test and every assignment of the statics is a step.    *)
(***************************************************************************)
\* The calls a thread makes from outside the class.
MaxCalls == 2

BesidesPreferences == <<elVars, tagVars, docVars, entityVars, sphere>>

\* @synchronized(self) lets any thread in, whoever is inside.
mayEnterAlways(l, t) ==
    TRUE

\* @synchronized(self): the lock is free or held by the thread itself.
mayEnter(l, t) ==
    l.owner \in {0, t}

\* Entering and leaving a @synchronized(self) block.
entered(l, t) ==
    [owner |-> t, depth |-> l.depth + 1]

left(l) ==
    IF l.depth = 1 THEN Unlocked ELSE [l EXCEPT !.depth = @ - 1]

Returned(op, val) ==
    [op |-> op, value |-> val]

\* A thread calls [PreferencesWindowController sharedInstance].
CallSharedInstance(t) ==
    /\ threads[t].pc = "resting"
    /\ Len(threads[t].returned) < MaxCalls
    /\ threads' = [threads EXCEPT ![t].pc = "sharedInstance_enter"]
    /\ UNCHANGED <<sharedInstance, preferencesListener, lock, heap>>
    /\ UNCHANGED BesidesPreferences

\* +sharedInstance: @synchronized(self) {
SharedInstanceEnter(t) ==
    /\ threads[t].pc = "sharedInstance_enter"
    /\ mayEnter(lock, t)
    /\ lock' = entered(lock, t)
    /\ threads' = [threads EXCEPT ![t].pc = "sharedInstance_test"]
    /\ UNCHANGED <<sharedInstance, preferencesListener, heap>>
    /\ UNCHANGED BesidesPreferences

\* +sharedInstance: if (sharedInstance == nil), and [self alloc] if it is.
SharedInstanceTest(t) ==
    /\ threads[t].pc = "sharedInstance_test"
    /\ threads' =
         IF sharedInstance = Nil
         THEN [threads EXCEPT ![t].pc = "allocWithZone_enter",
                              ![t].frames = <<"sharedInstance">>]
         ELSE [threads EXCEPT ![t].pc = "sharedInstance_testListener"]
    /\ UNCHANGED <<sharedInstance, preferencesListener, lock, heap>>
    /\ UNCHANGED BesidesPreferences

\* +sharedInstance: sharedInstance = [[self alloc] init]; init gives back
\* its receiver.
SharedInstanceInit(t) ==
    /\ threads[t].pc = "sharedInstance_init"
    /\ sharedInstance' = threads[t].got
    /\ threads' = [threads EXCEPT ![t].pc = "sharedInstance_testListener"]
    /\ UNCHANGED <<preferencesListener, lock, heap>>
    /\ UNCHANGED BesidesPreferences

\* +sharedInstance: if (preferencesListener == nil)
SharedInstanceTestListener(t) ==
    /\ threads[t].pc = "sharedInstance_testListener"
    /\ threads' =
         IF preferencesListener = Nil
         THEN [threads EXCEPT ![t].pc = "sharedInstance_newListener"]
         ELSE [threads EXCEPT ![t].pc = "sharedInstance_leave"]
    /\ UNCHANGED <<sharedInstance, preferencesListener, lock, heap>>
    /\ UNCHANGED BesidesPreferences

\* +sharedInstance: preferencesListener = new PreferencesListener();
SharedInstanceNewListener(t) ==
    /\ threads[t].pc = "sharedInstance_newListener"
    /\ heap' = [heap EXCEPT !.listeners = @ + 1]
    /\ preferencesListener' = heap'.listeners
    /\ threads' = [threads EXCEPT ![t].pc = "sharedInstance_leave"]
    /\ UNCHANGED <<sharedInstance, lock>>
    /\ UNCHANGED BesidesPreferences

\* +sharedInstance: } the end of the @synchronized block.
SharedInstanceLeave(t) ==
    /\ threads[t].pc = "sharedInstance_leave"
    /\ lock' = left(lock)
    /\ threads' = [threads EXCEPT ![t].pc = "sharedInstance_return"]
    /\ UNCHANGED <<sharedInstance, preferencesListener, heap>>
    /\ UNCHANGED BesidesPreferences

\* +sharedInstance: return sharedInstance; outside the @synchronized block.
SharedInstanceReturn(t) ==
    /\ threads[t].pc = "sharedInstance_return"
    /\ threads' = [threads EXCEPT
                     ![t].pc = "resting",
                     ![t].returned = Append(@, Returned("sharedInstance", sharedInstance))]
    /\ UNCHANGED <<sharedInstance, preferencesListener, lock, heap>>
    /\ UNCHANGED BesidesPreferences

\* A thread calls [PreferencesWindowController allocWithZone:zone].
CallAllocWithZone(t) ==
    /\ threads[t].pc = "resting"
    /\ Len(threads[t].returned) < MaxCalls
    /\ threads' = [threads EXCEPT ![t].pc = "allocWithZone_enter", ![t].frames = <<>>]
    /\ UNCHANGED <<sharedInstance, preferencesListener, lock, heap>>
    /\ UNCHANGED BesidesPreferences

\* +allocWithZone: @synchronized(self) {
AllocWithZoneEnter(t) ==
    /\ threads[t].pc = "allocWithZone_enter"
    /\ mayEnter(lock, t)
    /\ lock' = entered(lock, t)
    /\ threads' = [threads EXCEPT ![t].pc = "allocWithZone_test"]
    /\ UNCHANGED <<sharedInstance, preferencesListener, heap>>
    /\ UNCHANGED BesidesPreferences

\* +allocWithZone: if (sharedInstance == nil)
AllocWithZoneTest(t) ==
    /\ threads[t].pc = "allocWithZone_test"
    /\ threads' =
         IF sharedInstance = Nil
         THEN [threads EXCEPT ![t].pc = "allocWithZone_alloc"]
         ELSE [threads EXCEPT ![t].pc = "allocWithZone_nil"]
    /\ UNCHANGED <<sharedInstance, preferencesListener, lock, heap>>
    /\ UNCHANGED BesidesPreferences

\* +allocWithZone: sharedInstance = [super allocWithZone:zone];
AllocWithZoneAlloc(t) ==
    /\ threads[t].pc = "allocWithZone_alloc"
    /\ heap' = [heap EXCEPT !.controllers = @ + 1]
    /\ sharedInstance' = heap'.controllers
    /\ threads' = [threads EXCEPT ![t].pc = "allocWithZone_instance"]
    /\ UNCHANGED <<preferencesListener, lock>>
    /\ UNCHANGED BesidesPreferences

\* The thread is back in the caller of +allocWithZone: with val.
allocWithZoneGives(t, val) ==
    IF threads[t].frames = <<>>
    THEN [threads EXCEPT
            ![t].pc = "resting",
            ![t].returned = Append(@, Returned("allocWithZone", val))]
    ELSE [threads EXCEPT
            ![t].pc = "sharedInstance_init",
            ![t].frames = <<>>,
            ![t].got = val,
            ![t].returned = Append(@, Returned("allocWithZone", val))]

\* +allocWithZone: return sharedInstance; which leaves the @synchronized
\* block.
AllocWithZoneInstance(t) ==
    /\ threads[t].pc = "allocWithZone_instance"
    /\ lock' = left(lock)
    /\ threads' = allocWithZoneGives(t, sharedInstance)
    /\ UNCHANGED <<sharedInstance, preferencesListener, heap>>
    /\ UNCHANGED BesidesPreferences

\* +allocWithZone: } return nil;
AllocWithZoneNil(t) ==
    /\ threads[t].pc = "allocWithZone_nil"
    /\ lock' = left(lock)
    /\ threads' = allocWithZoneGives(t, Nil)
    /\ UNCHANGED <<sharedInstance, preferencesListener, heap>>
    /\ UNCHANGED BesidesPreferences

NextPreferences ==
    \E t \in Threads :
       \/ CallSharedInstance(t)
       \/ SharedInstanceEnter(t)
       \/ SharedInstanceTest(t)
       \/ SharedInstanceInit(t)
       \/ SharedInstanceTestListener(t)
       \/ SharedInstanceNewListener(t)
       \/ SharedInstanceLeave(t)
       \/ SharedInstanceReturn(t)
       \/ CallAllocWithZone(t)
       \/ AllocWithZoneEnter(t)
       \/ AllocWithZoneTest(t)
       \/ AllocWithZoneAlloc(t)
       \/ AllocWithZoneInstance(t)
       \/ AllocWithZoneNil(t)

InitPreferences == InitWith({NoText})

SpecPreferences == InitPreferences /\ [][NextPreferences]_vars

\* What the calls of op have returned, over all threads.
ReturnedBy(op) ==
    {<<t, n>> \in Threads \X (1 .. MaxCalls + 1) :
        /\ n <= Len(threads[t].returned)
        /\ threads[t].returned[n].op = op}

\* C30: however the calls of +sharedInstance and +allocWithZone: of several
\* threads interleave, at most one controller and at most one
\* PreferencesListener are created, +allocWithZone: returns the controller
\* once and nil on every other allocation, and every +sharedInstance returns
\* the one controller, which is not nil; no thread assigns sharedInstance
\* while another reads it outside the lock.
C30_OneSharedInstance ==
    /\ heap.controllers <= 1
    /\ heap.listeners <= 1
    /\ \A c \in ReturnedBy("sharedInstance") :
          /\ threads[c[1]].returned[c[2]].value # Nil
          /\ threads[c[1]].returned[c[2]].value = sharedInstance
    /\ \A c \in ReturnedBy("allocWithZone") :
          /\ heap.controllers = 1
          /\ threads[c[1]].returned[c[2]].value \in {Nil, sharedInstance}
    /\ Cardinality({c \in ReturnedBy("allocWithZone") :
                       threads[c[1]].returned[c[2]].value # Nil}) <= 1
    /\ \A t, u \in Threads :
          threads[t].pc = "sharedInstance_return"
          => threads[u].pc \notin {"allocWithZone_alloc", "sharedInstance_init"}

\* Two threads have each been given the controller by +sharedInstance, and
\* an +allocWithZone: after the first has returned nil.
C30_Witness ==
    /\ \E c, d \in ReturnedBy("sharedInstance") : c[1] # d[1]
    /\ \E c \in ReturnedBy("allocWithZone") :
          threads[c[1]].returned[c[2]].value = Nil
    /\ heap.controllers = 1
    /\ heap.listeners = 1

====
